---- MODULE Spec2Model ----
(***************************************************************************)
(* State-machine model of the archive crawler subsystem of                 *)
(* raylibre/WaybackMachine:                                                *)
(*   - EnhancedSnapshotCrawler (core/enhanced_crawler.py): the recursive,  *)
(*     sequential site crawler with resume state,                          *)
(*   - SnapshotDownloader (core/snapshot_downloader.py): the asyncio batch *)
(*     downloader with its semaphore and retry pass,                       *)
(*   - RateLimiter (utils/rate_limiter.py) with its single caller,         *)
(*   - the StorageManager and ArchiveUrlHelper functions they rely on.     *)
(*                                                                         *)
(* A URL is a sequence of tokens: the host first, then the pieces of the   *)
(* path ("/about", "?p1", ...).  An archive URL is a record                *)
(* [ts, orig]: the capture timestamp and the original URL it embeds.       *)
(***************************************************************************)
EXTENDS Integers, Sequences, FiniteSets, TLC

(***************************************************************************)
(* Bounds of the model.                                                    *)
(***************************************************************************)
MaxPagesBound == 2      \* max_pages of a crawler instance is in 1..MaxPagesBound
MaxDepthBound == 1      \* max_depth of a crawler instance is in 0..MaxDepthBound
MaxLinks == 2           \* anchors on one fetched page

None == "None"

(***************************************************************************)
(* ArchiveUrlHelper (utils/url_helper.py)                                  *)
(***************************************************************************)

\* str.lower() on one token
Lower(tok) ==
    CASE tok = "/WP-ADMIN" -> "/wp-admin"
      [] tok = "/Login" -> "/login"
      [] tok = "SITE" -> "site"
      [] OTHER -> tok

\* build_archive_url(timestamp, original_url)
build_archive_url(timestamp, original_url) ==
    [ts |-> timestamp, orig |-> original_url]

\* the timestamps a caller may pass: "T1" and "T2" stand for two strings of 14
\* digits, "D8" for a string of 8 digits
Timestamps == {"T1", "T2", "D8"}

\* the regular expression's \d{14}
IsFourteenDigits(timestamp) == timestamp \in {"T1", "T2"}

\* the two prefixes of original_url.startswith(('http://', 'https://'))
Schemes == {"http://", "https://"}

\* extract_timestamp_and_original(archive_url); (None, None) is written
\* <<None, <<>>>>
extract_timestamp_and_original(archive_url) ==
    IF IsFourteenDigits(archive_url.ts) /\ Len(archive_url.orig) > 0
    THEN <<archive_url.ts,
           IF archive_url.orig[1] \in Schemes
           THEN archive_url.orig
           ELSE <<"https://">> \o archive_url.orig>>
    ELSE <<None, <<>>>>

\* urljoin(original_base, relative_url) for a relative_url that starts with "/":
\* the host of the base is kept, its path is replaced
urljoin(original_base, relative_url) ==
    <<original_base[1]>> \o relative_url

\* convert_relative_to_archive(relative_url, base_archive_url)
convert_relative_to_archive(relative_url, base_archive_url) ==
    build_archive_url(base_archive_url.ts, urljoin(base_archive_url.orig, relative_url))

\* get_domain(url): the lowercased host of the original URL of an archive URL
\* (what follows the scheme extract_timestamp_and_original hands back); for a
\* string the pattern does not match, the host of the string itself, which is
\* web.archive.org, or "" for a string without a host (ts = None)
get_domain(archive_url) ==
    LET parts == extract_timestamp_and_original(archive_url)
    IN  IF parts[1] # None THEN Lower(parts[2][2])
        ELSE IF archive_url.ts = None THEN ""
        ELSE "web.archive.org"

\* is_same_domain(url1, url2)
is_same_domain(url1, url2) ==
    get_domain(url1) = get_domain(url2)

(***************************************************************************)
(* StorageManager (core/storage_manager.py)                                *)
(***************************************************************************)

\* the replace('/', '_').replace('?', '_')... chain of _url_to_filename on one token
SanitizeTok(tok) ==
    CASE tok = "/about" -> "_about"
      [] tok = "/news" -> "_news"
      [] tok = "/Login" -> "_Login"
      [] tok = "/p1" -> "_p1"
      [] tok = "?p1" -> "_p1"
      [] tok = "/page.html" -> "_page.html"
      [] tok = "/WP-ADMIN" -> "_WP-ADMIN"
      [] tok = "/long" -> "_long"
      [] OTHER -> tok

\* len() of one piece of a URL
TokLen(tok) ==
    CASE tok \in {"/long", "_long"} -> 160
      [] tok \in {"/page.html", "_page.html"} -> 10
      [] tok = "http://" -> 7
      [] tok = "https://" -> 8
      [] tok = "site" -> 4
      [] tok = "other" -> 5
      [] OTHER -> 3

RECURSIVE StrLen(_)
\* len() of a string given by its pieces
StrLen(toks) ==
    IF toks = <<>> THEN 0 ELSE TokLen(Head(toks)) + StrLen(Tail(toks))

RECURSIVE StripScheme(_)
\* lines 242-243: url.split('://', 1)[1], what follows the first "://"
StripScheme(url) ==
    IF \A i \in DOMAIN url : url[i] \notin Schemes THEN url
    ELSE IF Head(url) \in Schemes THEN Tail(url)
         ELSE StripScheme(Tail(url))

RECURSIVE TakeChars(_, _)
\* safe_name[:n]: the pieces that fit whole, then <<piece, characters kept>> of
\* the piece that is cut
TakeChars(toks, n) ==
    IF toks = <<>> \/ n = 0 THEN [whole |-> <<>>, cut |-> <<>>, kept |-> 0]
    ELSE IF TokLen(Head(toks)) <= n
         THEN LET rest == TakeChars(Tail(toks), n - TokLen(Head(toks)))
              IN  [rest EXCEPT !.whole = <<Head(toks)>> \o @]
         ELSE [whole |-> <<>>, cut |-> <<Head(toks)>>, kept |-> n]

LongOver == 200        \* storage_manager.py line 148: len(filename) > 200
KeepLong == 180        \* storage_manager.py line 151: filename[:180]
HashSuffix == 9        \* "_" and the 8 hexadecimal digits of hexdigest()[:8]
ExtLen == 5            \* len('.html')

\* filename.endswith('.html')
EndsWithHtml(filename) ==
    filename # <<>> /\ filename[Len(filename)] = "_page.html"

\* lines 144-157 on a URL without its scheme: the name, for a long name the URL
\* whose md5 digest is appended, and the extension added
SanitizedFile(stripped) ==
    LET filename == [i \in DOMAIN stripped |-> SanitizeTok(stripped[i])]
    IN  IF StrLen(filename) > LongOver
        THEN [name |-> TakeChars(filename, KeepLong), url_hash |-> <<stripped>>,
              ext |-> ".html"]
        ELSE [name |-> [whole |-> filename, cut |-> <<>>, kept |-> 0], url_hash |-> <<>>,
              ext |-> IF EndsWithHtml(filename) THEN "" ELSE ".html"]

\* the URLs of the model without their scheme: a host and up to three further
\* pieces, or nothing
StrippedUrls ==
    LET hosts == {"site", "SITE", "other"}
        pieces == {"/about", "/news", "/Login", "/p1", "?p1", "/WP-ADMIN", "/long",
                   "/page.html"}
    IN  {<<>>} \cup { <<h>> \o p : h \in hosts, p \in UNION { [1..n -> pieces] : n \in 0..3 } }

\* SanitizedFile, worked out once for every URL of the model
FileNames == [stripped \in StrippedUrls |-> SanitizedFile(stripped)] @@ << >>

\* _url_to_filename(url)
url_to_filename(url) == FileNames[StripScheme(url)]

\* the file save_page_content writes and page_exists tests:
\* snapshots/<safe_domain>/<timestamp>/<file_name>
PagePath(archive_url) ==
    [domain |-> get_domain(archive_url),
     ts |-> archive_url.ts,
     name |-> url_to_filename(archive_url.orig)]

\* get_snapshot_path(archive_url): snapshots/<safe_domain>/<timestamp>
get_snapshot_path(archive_url) ==
    [domain |-> get_domain(archive_url), ts |-> archive_url.ts]

(***************************************************************************)
(* The site: what the archive can answer                                   *)
(***************************************************************************)

\* the snapshot _find_best_snapshot may resolve for the site
StartUrls ==
    { build_archive_url("T1", <<"site">>),
      build_archive_url("T1", <<"site", "/Login">>) }

\* the anchors a fetched page may carry: arch = TRUE for an href that is
\* itself an archive URL
Hrefs ==
    { [arch |-> FALSE, ts |-> None, toks |-> <<"/about">>],
      [arch |-> TRUE, ts |-> "T1", toks |-> <<"site", "/about">>],
      [arch |-> FALSE, ts |-> None, toks |-> <<"SITE", "/p1">>],
      [arch |-> FALSE, ts |-> None, toks |-> <<"/WP-ADMIN">>],
      [arch |-> FALSE, ts |-> None, toks |-> <<"other", "/p1">>],
      [arch |-> FALSE, ts |-> None, toks |-> <<"#top">>] }

HrefSets == { h \in SUBSET Hrefs : Cardinality(h) <= MaxLinks }

\* what one dispatched request can end with
Outcomes == {"ok", "404", "http", "RequestException", "save_error"}


(***************************************************************************)
(* EnhancedSnapshotCrawler (core/enhanced_crawler.py)                      *)
(***************************************************************************)

VARIABLES
    max_pages, max_depth, resume_mode,   \* the instance's configuration
    visited_urls,                        \* set of archive URLs
    found_pages,                         \* list of PageRecords [url, depth]
    failed_urls,                         \* list of FailureRecords [url, error, depth]
    skipped_urls,                        \* list of archive URLs
    phase,                               \* where crawl_political_site stands
    start_url,                           \* the snapshot the finder resolves for the site
    seedIdx,                             \* position of the loop over all_urls
    stack,                               \* the _crawl_recursive frames inside their link loop
    summary,                             \* the summary crawl_political_site returned
    pageFiles,                           \* storage: page files that exist
    snapDirs,                            \* storage: snapshot directories that exist
    stateFile,                           \* storage: crawler_state.json (<<>> when absent)
    summaryFile,                         \* storage: snapshot_<ts>_summary.json (<<>> when absent)
    resumed,                             \* the resuming process has been started
    dispatched,                          \* this run: URLs passed to rate_limiter.wait_if_needed
    requested,                           \* this run: URLs passed to session.get
    savedNow,                            \* this run: URLs passed to save_page_content
    runs                                 \* log of the completed runs

crawlerVars ==
    <<max_pages, max_depth, resume_mode, visited_urls, found_pages, failed_urls,
      skipped_urls, phase, start_url, seedIdx, stack, summary, pageFiles, snapDirs,
      stateFile, summaryFile, resumed, dispatched, requested, savedNow, runs>>

(***************************************************************************)
(* SnapshotDownloader (core/snapshot_downloader.py): state                 *)
(***************************************************************************)

NumRecords == 2         \* records in the batch given to download_snapshot_batch
MaxConcurrentBound == 2 \* largest max_concurrent
MaxPasses == 3          \* nested download_snapshot_batch calls that are followed

\* the records of the batch; their html files have pairwise different names, so
\* that a record and its file can go by one number
Records == 1..NumRecords

\* what one session.get and the save after it can end with: status 200 and saved,
\* a non-200 status / timeout / transport error, status 200 with the html file
\* written and the metadata write failing
GetOutcomes == {"ok", "fail", "meta_error"}

VARIABLES
    max_concurrent, dl_resume_mode,  \* the instance's configuration
    delay,                           \* rate_limiter.delay, in clock ticks: one tick is
                                     \* the delay the RateLimiter was constructed with
    stats,                           \* self.stats: [successful, failed, skipped]
    failed_downloads,                \* self.failed_downloads, list of records
    htmlFiles,                       \* storage: records whose html file exists
    manifest,                        \* storage: snapshot_manifest.json (<<>> when absent)
    dlPhase,                         \* where the top-level call stands
    passes,                          \* the nested download_snapshot_batch frames
    taskPc,                          \* position of each task of the innermost pass
    sleepLeft,                       \* ticks until a task's asyncio.sleep is over
    sinceRequest,                    \* ticks since the last session.get started
    minGap,                          \* smallest distance between two request starts
    attempts,                        \* session.get calls per record in this call
    result,                          \* what the top-level call returned
    fetched,                         \* the requests that have ended so far: [ok, failed],
                                     \* those that returned True and those that returned False
    reordered,                       \* a task has finished before one created before it
    dl_rerun,                        \* the downloader runs a second time, in a new process
    first_clean                      \* the call of the first process fetched every record
                                     \* of the batch and none of its requests failed

dlVars ==
    <<max_concurrent, dl_resume_mode, delay, stats, failed_downloads, htmlFiles,
      manifest, dlPhase, passes, taskPc, sleepLeft, sinceRequest, minGap, attempts,
      result, fetched, reordered, dl_rerun, first_clean>>

(***************************************************************************)
(* RateLimiter (utils/rate_limiter.py): state                              *)
(***************************************************************************)

MaxDelayTicks == 2      \* largest self.delay, in clock ticks of one second
MaxBurstLimit == 2      \* largest self.burst_limit
MaxOversleep == 1       \* ticks a time.sleep may last longer than asked
BurstWindow == 10       \* line 30: the burst window, in seconds

VARIABLES
    rl_delay, burst_limit,  \* the limiter's configuration (self.delay, self.burst_limit)
    burst_count,            \* self.burst_count
    sinceLast,              \* now - self.last_request_time, counted up to rl_delay
    sinceBurstStart,        \* now - self.burst_start_time, counted up to BurstWindow + 1
    rlPhase,                \* "unused", or "ready" for a constructed limiter
    rl_calls,               \* wait_if_needed calls since construction or reset,
                            \* counted up to burst_limit + 2
    rl_elapsed,             \* ticks from the start of the first of these calls to the
                            \* return of call burst_limit + 1
    windowRestarted,        \* a later one of these calls found the burst window over
    lastCall                \* the last wait_if_needed call: what it found and slept

rlVars ==
    <<rl_delay, burst_limit, burst_count, sinceLast, sinceBurstStart, rlPhase, rl_calls,
      rl_elapsed, windowRestarted, lastCall>>

(***************************************************************************)
(* The helper functions looked at on their own: one call and its result    *)
(***************************************************************************)

VARIABLES
    fn_call,    \* the function that was called, "none" before the call
    fn_args,    \* per function: its arguments, <<>> when it was not called
    fn_ret      \* per function: what it returned, <<>> when it was not called

fnVars == <<fn_call, fn_args, fn_ret>>

\* no function has been called
NotCalled ==
    [round_trip |-> <<>>, html_path |-> <<>>, find_best_snapshot |-> <<>>,
     get_events_by_filter |-> <<>>, filenames |-> <<>>]

(***************************************************************************)
(* StorageManager (core/storage_manager.py): state                         *)
(***************************************************************************)

VARIABLES
    st_files,   \* the page files under snapshots/: path -> content
    st_meta,    \* the .meta.json files: page path -> metadata written
    st_dirs,    \* the snapshot directories that exist
    st_now,     \* datetime.now()
    st_prev,    \* the call of save_page_content before the last one, if any
    st_last     \* the last call of save_page_content, if any

stVars == <<st_files, st_meta, st_dirs, st_now, st_prev, st_last>>

(***************************************************************************)
(* SnapshotCrawler (core/snapshot_crawler.py): state                       *)
(***************************************************************************)

VARIABLES
    sc_max_pages, sc_max_depth, \* the instance's configuration
    sc_start,                   \* the start_archive_url given to crawl_snapshot
    sc_visited,                 \* self.visited_urls
    sc_found,                   \* self.found_pages, list of [url, depth]
    sc_failed,                  \* self.failed_urls, list of archive URLs
    sc_stack,                   \* the _crawl_recursive frames inside their link loop
    sc_files,                   \* storage: page files that exist
    sc_phase,                   \* where crawl_snapshot stands
    sc_requested,               \* the URLs passed to session.get
    sc_invalid,                 \* the URLs for which save_page_content raised
                                \* ValueError("Invalid archive URL")
    sc_dispatched,              \* the URLs for which rate_limiter.wait_if_needed ran
    sc_too_deep                 \* the URLs a call returned for at line 104 for their
                                \* depth alone

scVars ==
    <<sc_max_pages, sc_max_depth, sc_start, sc_visited, sc_found, sc_failed, sc_stack,
      sc_files, sc_phase, sc_requested, sc_invalid, sc_dispatched, sc_too_deep>>

\* self.priority_paths (2 of the 16 entries)
priority_paths == <<"/about", "/news">>

\* self.exclude_paths (2 of the 12 entries)
exclude_paths == <<"/wp-admin", "/login">>

\* any(p in url.lower() for p in paths)
ContainsAnyLower(url, paths) ==
    \E i \in DOMAIN url : \E j \in DOMAIN paths : Lower(url[i]) = paths[j]

\* line 235 without the .lower()
IsExcluded_CaseSensitive(archive_url) ==
    \E i \in DOMAIN archive_url.orig : \E j \in DOMAIN exclude_paths :
        archive_url.orig[i] = exclude_paths[j]

\* line 235: any(exclude in archive_url.lower() for exclude in self.exclude_paths)
IsExcluded(archive_url) ==
    ContainsAnyLower(archive_url.orig, exclude_paths)

\* line 427: any(priority in link.lower() for priority in self.priority_paths)
IsPriority(archive_url) ==
    ContainsAnyLower(archive_url.orig, priority_paths)

\* href.startswith('/')
StartsWithSlash(toks) ==
    toks[1] \in {"/about", "/news", "/Login", "/p1", "/WP-ADMIN"}

\* lines 390-410: the archive link one anchor yields (a set of at most one link)
ArchiveLinkOf(href, base_archive_url, target_domain) ==
    IF href.toks = <<>> \/ href.toks[1] = "#top" THEN {}
    ELSE IF ContainsAnyLower(href.toks, exclude_paths) THEN {}
    ELSE IF ~href.arch /\ StartsWithSlash(href.toks)
         THEN {convert_relative_to_archive(href.toks, base_archive_url)}
    ELSE IF \E i \in DOMAIN href.toks : Lower(href.toks[i]) = target_domain
         THEN IF href.arch
              THEN {build_archive_url(href.ts, href.toks)}
              ELSE {build_archive_url(base_archive_url.ts, href.toks)}
    ELSE {}

\* the links collected without the test against visited_urls
InternalLinks_KeepVisited(hrefs, base_archive_url, target_domain, visited) ==
    { l \in UNION { ArchiveLinkOf(h, base_archive_url, target_domain) : h \in hrefs } :
        is_same_domain(l, base_archive_url) }

\* lines 413-420: set(internal_links)
InternalLinks(hrefs, base_archive_url, target_domain, visited) ==
    { l \in UNION { ArchiveLinkOf(h, base_archive_url, target_domain) : h \in hrefs } :
        l \notin visited /\ is_same_domain(l, base_archive_url) }

RECURSIVE SeqsOf(_)
\* the orders in which list(set(...)) can enumerate a set
SeqsOf(S) ==
    IF S = {} THEN {<<>>}
    ELSE UNION { { <<x>> \o s : s \in SeqsOf(S \ {x}) } : x \in S }

\* the links returned as list(set(...)) enumerates them, not partitioned
extract_internal_links_optimized_Unordered(hrefs, base_archive_url, target_domain, visited) ==
    SeqsOf(InternalLinks(hrefs, base_archive_url, target_domain, visited))

\* _extract_internal_links_optimized: the lists it can return, priority links first
extract_internal_links_optimized(hrefs, base_archive_url, target_domain, visited) ==
    LET unique == InternalLinks(hrefs, base_archive_url, target_domain, visited)
    IN  { pr \o rg : pr \in SeqsOf({ l \in unique : IsPriority(l) }),
                     rg \in SeqsOf({ l \in unique : ~IsPriority(l) }) }

\* a page_exists that finds no file
page_exists_Never(archive_url) == FALSE

\* page_exists(archive_url)
page_exists(archive_url) ==
    /\ extract_timestamp_and_original(archive_url)[1] # None
    /\ PagePath(archive_url) \in pageFiles

\* lines 201-209: all_urls = [start_url] + priority_urls
all_urls(start) ==
    <<start>> \o [i \in 1..Len(priority_paths) |->
                    build_archive_url(start.ts, start.orig \o <<priority_paths[i]>>)]

\* a budget test that never stops the crawl
BudgetReached_Never(found) == FALSE

\* lines 213, 228 and 290: len(self.found_pages) >= self.max_pages (lines 220 and
\* 283 test the opposite)
BudgetReached(found) == Len(found) >= max_pages

\* lines 227-229 without the visited test
ShouldReturn_NoVisited(archive_url, depth) ==
    \/ depth > max_depth
    \/ Len(found_pages) >= max_pages

\* lines 227-229: the limits that make _crawl_recursive return at once
ShouldReturn(archive_url, depth) ==
    \/ depth > max_depth
    \/ BudgetReached(found_pages)
    \/ archive_url \in visited_urls

\* an except clause list that lacks the final "except Exception"
ExceptClause_RequestOnly(exc) ==
    IF exc = "RequestException" THEN "RequestException" ELSE None

\* lines 294-310: the except clause that catches an exception raised inside the
\* try block, as the error_type it records (None: the exception propagates)
ExceptClause(exc) ==
    IF exc = "RequestException" THEN "RequestException" ELSE "UnexpectedException"

\* lines 283: the guard of the link loop of a page fetched at depth
FollowsLinks(depth, found) ==
    depth < max_depth /\ ~BudgetReached(found)

\* found_pages.insert(0, page_info) instead: the record is put first
process_successful_page_Insert(found, archive_url, depth) ==
    <<[url |-> archive_url, depth |-> depth]>> \o found

\* _process_successful_page, line 352: self.found_pages.append(page_info)
process_successful_page(found, archive_url, depth) ==
    Append(found, [url |-> archive_url, depth |-> depth])

\* _crawl_recursive(archive_url, target_domain, depth) up to its link loop, with
\* the outcome of its request and the links its page yields: the new values
CrawlResult(archive_url, depth, outcome, links) ==
    LET cur == [visited |-> visited_urls, found |-> found_pages,
                failed |-> failed_urls, skipped |-> skipped_urls,
                files |-> pageFiles, dirs |-> snapDirs, frames |-> <<>>,
                waits |-> dispatched, gets |-> requested, saves |-> savedNow,
                raised |-> FALSE]
        seen == [cur EXCEPT !.visited = @ \cup {archive_url}]
        limited == [seen EXCEPT !.waits = Append(@, archive_url)]
        got == [limited EXCEPT !.gets = Append(@, archive_url)]
        failure(error) == [url |-> archive_url, error |-> error, depth |-> depth]
        except(r, exc) ==
            IF ExceptClause(exc) = None
            THEN [r EXCEPT !.raised = TRUE]
            ELSE [r EXCEPT !.failed = Append(@, failure(ExceptClause(exc)))]
        newFound == process_successful_page(found_pages, archive_url, depth)
    IN  IF ShouldReturn(archive_url, depth) THEN cur
        ELSE IF IsExcluded(archive_url)
             THEN [seen EXCEPT !.skipped = Append(@, archive_url)]
        ELSE IF resume_mode /\ page_exists(archive_url) THEN limited
        ELSE CASE outcome = "404" ->
                    [got EXCEPT !.failed = Append(@, failure("Not found in archive"))]
               [] outcome = "http" ->
                    [got EXCEPT !.failed = Append(@, failure("HTTP"))]
               [] outcome = "RequestException" ->
                    except(got, "RequestException")
               [] outcome = "save_error" ->
                    \* save_page_content raises while writing, after its mkdir
                    except([got EXCEPT !.dirs = @ \cup {get_snapshot_path(archive_url)},
                                       !.saves = @ \cup {archive_url}],
                           "OSError")
               [] OTHER ->
                    [got EXCEPT !.dirs = @ \cup {get_snapshot_path(archive_url)},
                                !.files = @ \cup {PagePath(archive_url)},
                                !.saves = @ \cup {archive_url},
                                !.found = newFound,
                                !.frames = IF FollowsLinks(depth, newFound) /\ links # <<>>
                                           THEN <<[links |-> links, depth |-> depth]>>
                                           ELSE <<>>]

\* the state after a call of _crawl_recursive made above the frames in rest, the
\* caller going on to phase next
Called(r, rest, next) ==
    /\ visited_urls' = r.visited
    /\ found_pages' = r.found
    /\ failed_urls' = r.failed
    /\ skipped_urls' = r.skipped
    /\ pageFiles' = r.files
    /\ snapDirs' = r.dirs
    /\ dispatched' = r.waits
    /\ requested' = r.gets
    /\ savedNow' = r.saves
    /\ stack' = IF r.raised THEN <<>> ELSE rest \o r.frames
    /\ phase' = IF r.raised THEN "aborted" ELSE next

\* a call of _crawl_recursive(archive_url, target_domain, depth): its request can
\* end with any outcome, its page can carry any anchors
CallCrawlRecursive(archive_url, depth, rest) ==
    \E outcome \in Outcomes :
      \E hrefs \in (IF outcome = "ok" THEN HrefSets ELSE {{}}) :
        \E links \in extract_internal_links_optimized(
                        hrefs, archive_url, get_domain(start_url),
                        visited_urls \cup {archive_url}) :
          Called(CrawlResult(archive_url, depth, outcome, links), rest, phase)


\* max(page.get('depth', 0) for page in found_pages), default 0
MaxDepthReached(found) ==
    IF found = <<>> THEN 0
    ELSE CHOOSE d \in { found[i].depth : i \in DOMAIN found } :
            \A i \in DOMAIN found : found[i].depth <= d

\* EnhancedSnapshotCrawler.__init__ in a new process that resumes on the storage
\* tree the first run left behind
Construct ==
    /\ phase \in {"done", "error", "interrupted"}
    /\ ~resumed
    /\ resumed' = TRUE
    /\ max_pages' \in 1..MaxPagesBound
    /\ max_depth' \in 0..MaxDepthBound
    /\ resume_mode' = TRUE      \* cli/main.py line 66: the default resume_mode
    /\ visited_urls' = {}
    /\ found_pages' = <<>>
    /\ failed_urls' = <<>>
    /\ skipped_urls' = <<>>
    /\ phase' = "idle"
    /\ UNCHANGED <<start_url, seedIdx, stack, summary, pageFiles, snapDirs, stateFile,
                   summaryFile, dispatched, requested, savedNow, runs>>
    /\ UNCHANGED <<dlVars, rlVars, fnVars, scVars, stVars>>

\* a crawl_political_site that marks the site's URL before it tests the finder's result
NoSnapshotFound_MarksVisited ==
    /\ phase' = "error"
    /\ visited_urls' = visited_urls \cup {start_url}
    /\ UNCHANGED <<found_pages, failed_urls>>

\* crawl_political_site, lines 92-94: _find_best_snapshot returned None and
\* ValueError leaves the call before the state is loaded or reset
NoSnapshotFound ==
    /\ phase' = "error"
    /\ UNCHANGED <<visited_urls, found_pages, failed_urls>>

\* crawl_political_site, lines 88-110: resolve the snapshot, load or reset the state
BeginCrawl ==
    /\ phase = "idle"
    /\ dispatched' = <<>>
    /\ requested' = <<>>
    /\ savedNow' = {}
    /\ seedIdx' = 1
    /\ stack' = <<>>
    /\ \E snapshot_found \in BOOLEAN :
         IF ~snapshot_found
         THEN NoSnapshotFound
         ELSE /\ phase' = "seeds"
              /\ IF resume_mode
                 THEN \* _load_previous_state
                      IF stateFile # <<>>
                      THEN /\ visited_urls' = stateFile[1].visited_urls
                           /\ found_pages' = stateFile[1].found_pages
                           /\ failed_urls' = stateFile[1].failed_urls
                      ELSE UNCHANGED <<visited_urls, found_pages, failed_urls>>
                 ELSE \* lines 107-110
                      /\ visited_urls' = {}
                      /\ found_pages' = <<>>
                      /\ failed_urls' = <<>>
    /\ UNCHANGED <<max_pages, max_depth, resume_mode, skipped_urls, start_url, summary,
                   pageFiles, snapDirs, stateFile, summaryFile, resumed, runs>>
    /\ UNCHANGED <<dlVars, rlVars, fnVars, scVars, stVars>>

\* _crawl_with_priority, lines 212-217: one turn of the loop over all_urls
SeedStep ==
    /\ phase = "seeds"
    /\ stack = <<>>
    /\ seedIdx <= Len(all_urls(start_url))
    /\ ~BudgetReached(found_pages)
    /\ seedIdx' = seedIdx + 1
    /\ IF all_urls(start_url)[seedIdx] \notin visited_urls
       THEN CallCrawlRecursive(all_urls(start_url)[seedIdx], 0, <<>>)
       ELSE UNCHANGED <<visited_urls, found_pages, failed_urls, skipped_urls, pageFiles,
                        snapDirs, dispatched, requested, savedNow, stack, phase>>
    /\ UNCHANGED <<max_pages, max_depth, resume_mode, start_url, summary, stateFile,
                   summaryFile, resumed, runs>>
    /\ UNCHANGED <<dlVars, rlVars, fnVars, scVars, stVars>>

\* _crawl_with_priority, lines 212-214: the loop over all_urls ends or breaks
SeedsDone ==
    /\ phase = "seeds"
    /\ stack = <<>>
    /\ seedIdx > Len(all_urls(start_url)) \/ BudgetReached(found_pages)
    /\ phase' = "final"
    /\ UNCHANGED <<max_pages, max_depth, resume_mode, visited_urls, found_pages,
                   failed_urls, skipped_urls, start_url, seedIdx, stack, summary,
                   pageFiles, snapDirs, stateFile, summaryFile, resumed, dispatched,
                   requested, savedNow, runs>>
    /\ UNCHANGED <<dlVars, rlVars, fnVars, scVars, stVars>>

\* _crawl_with_priority, lines 220-221: the last call on start_url
FinalCall ==
    /\ phase = "final"
    /\ IF ~BudgetReached(found_pages)
       THEN \E outcome \in Outcomes :
              Called(CrawlResult(start_url, 0, outcome, <<>>), <<>>, "finish")
       ELSE /\ phase' = "finish"
            /\ UNCHANGED <<visited_urls, found_pages, failed_urls, skipped_urls,
                           pageFiles, snapDirs, dispatched, requested, savedNow, stack>>
    /\ UNCHANGED <<max_pages, max_depth, resume_mode, start_url, seedIdx, summary,
                   stateFile, summaryFile, resumed, runs>>
    /\ UNCHANGED <<dlVars, rlVars, fnVars, scVars, stVars>>

\* _crawl_recursive, lines 289-292: one turn of the link loop of the top frame
LinkStep ==
    /\ stack # <<>>
    /\ stack[Len(stack)].links # <<>>
    /\ ~BudgetReached(found_pages)
    /\ LET top == stack[Len(stack)]
           rest == [stack EXCEPT ![Len(stack)].links = Tail(@)]
       IN  CallCrawlRecursive(Head(top.links), top.depth + 1, rest)
    /\ UNCHANGED <<max_pages, max_depth, resume_mode, start_url, seedIdx, summary,
                   stateFile, summaryFile, resumed, runs>>
    /\ UNCHANGED <<dlVars, rlVars, fnVars, scVars, stVars>>

\* _crawl_recursive, lines 289-291: the link loop of the top frame ends or breaks
Return ==
    /\ stack # <<>>
    /\ stack[Len(stack)].links = <<>> \/ BudgetReached(found_pages)
    /\ stack' = SubSeq(stack, 1, Len(stack) - 1)
    /\ UNCHANGED <<max_pages, max_depth, resume_mode, visited_urls, found_pages,
                   failed_urls, skipped_urls, phase, start_url, seedIdx, summary,
                   pageFiles, snapDirs, stateFile, summaryFile, resumed, dispatched,
                   requested, savedNow, runs>>
    /\ UNCHANGED <<dlVars, rlVars, fnVars, scVars, stVars>>

\* the summary of lines 119-136
Summary ==
    [total_pages_found |-> Len(found_pages),
     total_pages_failed |-> Len(failed_urls),
     total_pages_skipped |-> Len(skipped_urls),
     max_depth_reached |-> MaxDepthReached(found_pages)]

\* _save_crawler_state: open(state_file, 'w') succeeds only inside an existing
\* snapshot directory (get_snapshot_path creates none); the error is swallowed
save_crawler_state ==
    IF get_snapshot_path(start_url) \in snapDirs
    THEN <<[visited_urls |-> visited_urls, found_pages |-> found_pages,
            failed_urls |-> failed_urls]>>
    ELSE stateFile

\* crawl_political_site, lines 115-148: summary, save_snapshot_summary,
\* _save_crawler_state, return
Finish ==
    /\ phase = "finish"
    /\ stack = <<>>
    /\ summary' = <<Summary>>
    /\ summaryFile' = <<Summary>>
    /\ stateFile' = save_crawler_state
    /\ runs' = Append(runs, [max_pages |-> max_pages, max_depth |-> max_depth,
                             resume_mode |-> resume_mode, found_pages |-> found_pages,
                             gets |-> Len(requested), saves |-> Cardinality(savedNow)])
    /\ phase' = "done"
    /\ UNCHANGED <<max_pages, max_depth, resume_mode, visited_urls, found_pages,
                   failed_urls, skipped_urls, start_url, seedIdx, stack, pageFiles,
                   snapDirs, resumed, dispatched, requested, savedNow>>
    /\ UNCHANGED <<dlVars, rlVars, fnVars, scVars, stVars>>

\* a user interrupt (KeyboardInterrupt) during the crawl: no except clause catches
\* it, crawl_political_site writes neither summary nor state
Interrupt ==
    /\ phase \in {"seeds", "final", "finish"}
    /\ ~resumed
    /\ phase' = "interrupted"
    /\ stack' = <<>>
    /\ UNCHANGED <<max_pages, max_depth, resume_mode, visited_urls, found_pages,
                   failed_urls, skipped_urls, start_url, seedIdx, summary, pageFiles,
                   snapDirs, stateFile, summaryFile, resumed, dispatched, requested,
                   savedNow, runs>>
    /\ UNCHANGED <<dlVars, rlVars, fnVars, scVars, stVars>>

\* line 235 as an earlier crawl applied it: the URL holds an exclusion substring
HasExclusion(archive_url) ==
    ContainsAnyLower(archive_url.orig, exclude_paths)

\* a freshly constructed crawler on a storage tree that is empty or holds the
\* start page an earlier crawl of the site saved (a crawl saves no excluded page)
CrawlerInit ==
    /\ max_pages \in 1..MaxPagesBound
    /\ max_depth \in 0..MaxDepthBound
    /\ resume_mode \in BOOLEAN
    /\ start_url \in StartUrls
    /\ visited_urls = {}
    /\ found_pages = <<>>
    /\ failed_urls = <<>>
    /\ skipped_urls = <<>>
    /\ phase = "idle"
    /\ seedIdx = 1
    /\ stack = <<>>
    /\ summary = <<>>
    /\ pageFiles \in SUBSET { PagePath(u) : u \in { v \in {start_url} : ~HasExclusion(v) } }
    /\ snapDirs = { get_snapshot_path(start_url) : f \in pageFiles }
    /\ stateFile = <<>>
    /\ summaryFile = <<>>
    /\ resumed = FALSE
    /\ dispatched = <<>>
    /\ requested = <<>>
    /\ savedNow = {}
    /\ runs = <<>>

CrawlerNext ==
    \/ Construct
    \/ BeginCrawl
    \/ SeedStep
    \/ SeedsDone
    \/ FinalCall
    \/ LinkStep
    \/ Return
    \/ Finish
    \/ Interrupt

(***************************************************************************)
(* SnapshotDownloader: operations                                          *)
(***************************************************************************)

RECURSIVE SelectSeq2(_, _)
\* the records of list s that are in set keep, in order
SelectSeq2(s, keep) ==
    IF s = <<>> THEN <<>>
    ELSE (IF Head(s) \in keep THEN <<Head(s)>> ELSE <<>>) \o SelectSeq2(Tail(s), keep)

\* a resume filter that drops nothing
filter_existing_pages_KeepAll(snapshots, files) ==
    snapshots

\* _filter_existing_pages: the records without an html file; the others are counted
filter_existing_pages(snapshots, files) ==
    SelectSeq2(snapshots, Records \ files)

\* a semaphore that never blocks
SlotFree_Unbounded(pc) ==
    TRUE

\* async with semaphore: Semaphore(max_concurrent) has a free slot
SlotFree(pc) ==
    Cardinality({ i \in Records : pc[i] \in {"sleep", "get"} }) < max_concurrent

\* _build_result_summary
build_result_summary(total_attempted, st) ==
    [ total_attempted |-> total_attempted, successful |-> st.successful,
      failed |-> st.failed, skipped |-> st.skipped ]

\* _retry_failed_downloads without its "finally": the doubled delay stays
RestoredDelay_NoFinally(frames, d) ==
    d

\* the delay after every pending "finally" of _retry_failed_downloads has run
RestoredDelay(frames, d) ==
    IF Len(frames) >= 2 THEN frames[2].original_delay ELSE d

\* download_snapshot_batch(snapshots), lines 64-109, called with the frames below
\* it and the delay and stats it finds: it returns at once when the resume filter
\* leaves nothing, else it creates its tasks and waits in gather
EnterBatch(snapshots, frames, original_delay, d, st) ==
    LET todo == IF dl_resume_mode THEN filter_existing_pages(snapshots, htmlFiles)
                ELSE snapshots
        st1  == [st EXCEPT !.skipped = @ + (Len(snapshots) - Len(todo))]
    IN  /\ stats' = st1
        /\ IF todo = <<>>
           THEN /\ dlPhase' = "returned"
                /\ passes' = <<>>
                /\ delay' = RestoredDelay(frames \o <<[original_delay |-> original_delay]>>, d)
                /\ result' = << build_result_summary(
                                  IF frames = <<>> THEN 0 ELSE Len(frames[1].snapshots), st1) >>
                /\ taskPc' = [i \in Records |-> "none"]
           ELSE /\ dlPhase' = "gather"
                /\ passes' = Append(frames, [snapshots |-> todo,
                                             original_delay |-> original_delay])
                /\ delay' = d
                /\ result' = result
                /\ taskPc' = [i \in Records |->
                                IF \E k \in DOMAIN todo : todo[k] = i THEN "wait" ELSE "none"]
        /\ sleepLeft' = [i \in Records |-> 0]

\* the top-level call of download_snapshot_batch
DlStart ==
    /\ dlPhase = "idle"
    /\ EnterBatch([i \in Records |-> i], <<>>, delay, delay, stats)
    /\ UNCHANGED <<max_concurrent, dl_resume_mode, failed_downloads, htmlFiles, manifest,
                   sinceRequest, minGap, attempts>>
    /\ UNCHANGED <<fetched, reordered, dl_rerun, first_clean>>
    /\ UNCHANGED <<crawlerVars, rlVars, fnVars, scVars, stVars>>

\* _download_single_snapshot, lines 143-145: the task enters the semaphore and
\* starts asyncio.sleep(self.rate_limiter.delay)
Acquire(i) ==
    /\ dlPhase = "gather"
    /\ taskPc[i] = "wait"
    /\ SlotFree(taskPc)
    /\ taskPc' = [taskPc EXCEPT ![i] = "sleep"]
    /\ sleepLeft' = [sleepLeft EXCEPT ![i] = delay]
    /\ UNCHANGED <<max_concurrent, dl_resume_mode, delay, stats, failed_downloads,
                   htmlFiles, manifest, dlPhase, passes, sinceRequest, minGap, attempts,
                   result>>
    /\ UNCHANGED <<fetched, reordered, dl_rerun, first_clean>>
    /\ UNCHANGED <<crawlerVars, rlVars, fnVars, scVars, stVars>>

\* line 155: the sleep is over and the task starts session.get
StartGet(i) ==
    /\ dlPhase = "gather"
    /\ taskPc[i] = "sleep"
    /\ sleepLeft[i] = 0
    /\ taskPc' = [taskPc EXCEPT ![i] = "get"]
    /\ attempts' = [attempts EXCEPT ![i] = IF @ < MaxPasses THEN @ + 1 ELSE @]
    /\ minGap' = IF sinceRequest < minGap THEN sinceRequest ELSE minGap
    /\ sinceRequest' = 0
    /\ UNCHANGED <<max_concurrent, dl_resume_mode, delay, stats, failed_downloads,
                   htmlFiles, manifest, dlPhase, passes, sleepLeft, result>>
    /\ UNCHANGED <<fetched, reordered, dl_rerun, first_clean>>
    /\ UNCHANGED <<crawlerVars, rlVars, fnVars, scVars, stVars>>

\* the failures that MaxPasses passes can count; the model counts no further
MaxCounted == NumRecords * MaxPasses

\* lines 100-104: the tasks of the innermost pass created before the task of record i
CreatedBefore(i) ==
    LET snaps == passes[Len(passes)].snapshots
    IN  { snaps[k] : k \in { k \in DOMAIN snaps : \E m \in DOMAIN snaps : k < m /\ snaps[m] = i } }

\* lines 156-186: the response arrives, the page is saved or the record is queued
\* for retry, and the task leaves the semaphore
FinishGet(i) ==
    /\ dlPhase = "gather"
    /\ taskPc[i] = "get"
    /\ \E outcome \in GetOutcomes :
          /\ taskPc' = [taskPc EXCEPT ![i] = IF outcome = "ok" THEN "true" ELSE "false"]
          /\ htmlFiles' = IF outcome = "fail" THEN htmlFiles ELSE htmlFiles \cup {i}
          /\ failed_downloads' = IF outcome = "ok" THEN failed_downloads
                                 ELSE Append(failed_downloads, i)
          /\ fetched' = IF outcome = "ok" THEN [fetched EXCEPT !.ok = @ + 1]
                         ELSE [fetched EXCEPT !.failed = IF @ < MaxCounted THEN @ + 1 ELSE @]
    /\ reordered' = (reordered \/ \E j \in CreatedBefore(i) :
                                      taskPc[j] \in {"wait", "sleep", "get"})
    /\ UNCHANGED <<max_concurrent, dl_resume_mode, delay, stats, manifest, dlPhase,
                   passes, sleepLeft, sinceRequest, minGap, attempts, result>>
    /\ UNCHANGED <<dl_rerun, first_clean>>
    /\ UNCHANGED <<crawlerVars, rlVars, fnVars, scVars, stVars>>

\* the clock: one tick passes, for the sleeping tasks and since the last request.
\* The event loop runs every task that is ready before it waits again, so time
\* passes only when no task can enter the semaphore or start its request.
Tick ==
    /\ dlPhase = "gather"
    /\ ~ \E i \in Records : taskPc[i] = "wait" /\ SlotFree(taskPc)
    /\ ~ \E i \in Records : taskPc[i] = "sleep" /\ sleepLeft[i] = 0
    /\ (\E i \in Records : taskPc[i] = "sleep") \/ sinceRequest < 1
    /\ sleepLeft' = [i \in Records |-> IF sleepLeft[i] > 0 THEN sleepLeft[i] - 1 ELSE 0]
    /\ sinceRequest' = 1
    /\ UNCHANGED <<max_concurrent, dl_resume_mode, delay, stats, failed_downloads,
                   htmlFiles, manifest, dlPhase, passes, taskPc, minGap, attempts, result>>
    /\ UNCHANGED <<fetched, reordered, dl_rerun, first_clean>>
    /\ UNCHANGED <<crawlerVars, rlVars, fnVars, scVars, stVars>>

\* a result loop that loses the failures
CountResults_SuccessOnly(pc, st) ==
    [st EXCEPT !.successful = @ + Cardinality({ i \in Records : pc[i] = "true" })]

\* lines 112-119: the results of gather counted into self.stats
CountResults(pc, st) ==
    [st EXCEPT !.successful = @ + Cardinality({ i \in Records : pc[i] = "true" }),
               !.failed = @ + Cardinality({ i \in Records : pc[i] = "false" })]

\* lines 109-129 and _retry_failed_downloads: gather returns, the results are
\* counted, the manifest is written; with an empty retry queue the call returns
\* (and so does every call that waits for it), else the queue is copied and
\* cleared, the delay doubled and download_snapshot_batch called again
GatherDone ==
    /\ dlPhase = "gather"
    /\ \A i \in Records : taskPc[i] \in {"none", "true", "false"}
    /\ LET st1 == CountResults(taskPc, stats)
           cur == passes[Len(passes)]
       IN  \E manifest_written \in BOOLEAN :
             IF ~manifest_written
             THEN \* line 296 raises: the exception leaves every pending call, each
                  \* _retry_failed_downloads on the way running its "finally"
                  /\ dlPhase' = "raised"
                  /\ passes' = <<>>
                  /\ delay' = RestoredDelay(passes, delay)
                  /\ stats' = st1
                  /\ taskPc' = [i \in Records |-> "none"]
                  /\ sleepLeft' = [i \in Records |-> 0]
                  /\ UNCHANGED <<manifest, result, failed_downloads>>
             ELSE
               /\ manifest' = << [ total_snapshots |-> Len(cur.snapshots),
                                   successful_downloads |-> st1.successful,
                                   failed_downloads |-> st1.failed,
                                   skipped_existing |-> st1.skipped ] >>
               /\ IF failed_downloads = <<>>
                  THEN /\ dlPhase' = "returned"
                       /\ passes' = <<>>
                       /\ delay' = RestoredDelay(passes, delay)
                       /\ stats' = st1
                       /\ result' = << build_result_summary(Len(passes[1].snapshots), st1) >>
                       /\ taskPc' = [i \in Records |-> "none"]
                       /\ sleepLeft' = [i \in Records |-> 0]
                       /\ failed_downloads' = failed_downloads
                  ELSE /\ Len(passes) < MaxPasses
                       /\ failed_downloads' = <<>>
                       /\ EnterBatch(failed_downloads, passes, delay, delay * 2, st1)
    /\ UNCHANGED <<max_concurrent, dl_resume_mode, htmlFiles, sinceRequest, minGap,
                   attempts>>
    /\ UNCHANGED <<fetched, reordered, dl_rerun, first_clean>>
    /\ UNCHANGED <<crawlerVars, rlVars, fnVars, scVars, stVars>>

\* lines 109-129 and _retry_failed_downloads at a nesting depth of MaxPasses or
\* more: the same steps as in GatherDone with a retry queue that is not empty.  The
\* model keeps MaxPasses frames, the top one standing for every deeper one, and
\* the numbers that grow with the depth (the doubled delay, the failure counter)
\* stay at the largest value the model counts.
RetryBeyond ==
    /\ dlPhase = "gather"
    /\ \A i \in Records : taskPc[i] \in {"none", "true", "false"}
    /\ Len(passes) = MaxPasses
    /\ failed_downloads # <<>>
    /\ LET counted == CountResults(taskPc, stats)
           st1 == [counted EXCEPT !.failed = IF @ > MaxCounted THEN MaxCounted ELSE @]
           cur == passes[Len(passes)]
       IN  /\ manifest' = << [ total_snapshots |-> Len(cur.snapshots),
                               successful_downloads |-> st1.successful,
                               failed_downloads |-> st1.failed,
                               skipped_existing |-> st1.skipped ] >>
           /\ failed_downloads' = <<>>
           /\ EnterBatch(failed_downloads, SubSeq(passes, 1, Len(passes) - 1),
                         cur.original_delay, delay, st1)
    /\ UNCHANGED <<max_concurrent, dl_resume_mode, htmlFiles, sinceRequest, minGap,
                   attempts>>
    /\ UNCHANGED <<fetched, reordered, dl_rerun, first_clean>>
    /\ UNCHANGED <<crawlerVars, rlVars, fnVars, scVars, stVars>>

\* SnapshotDownloader.__init__ with a RateLimiter, on a storage tree that may hold
\* pages of an earlier download
DlInit ==
    /\ max_concurrent \in 1..MaxConcurrentBound
    /\ dl_resume_mode \in BOOLEAN
    /\ delay = 1
    /\ stats = [successful |-> 0, failed |-> 0, skipped |-> 0]
    /\ failed_downloads = <<>>
    /\ htmlFiles \in SUBSET Records
    /\ manifest = <<>>
    /\ dlPhase = "idle"
    /\ passes = <<>>
    /\ taskPc = [i \in Records |-> "none"]
    /\ sleepLeft = [i \in Records |-> 0]
    /\ sinceRequest = 1
    /\ minGap = 1
    /\ attempts = [i \in Records |-> 0]
    /\ result = <<>>
    /\ fetched = [ok |-> 0, failed |-> 0]
    /\ reordered = FALSE
    /\ dl_rerun = FALSE
    /\ first_clean = FALSE

\* a returned summary of a call that fetched the whole batch without a failure
FullySuccessful(res) ==
    /\ res # <<>>
    /\ res[1].successful = NumRecords
    /\ res[1].failed = 0

\* cli/main.py lines 126-134: the command is run again with --resume, a new process
\* constructs a RateLimiter and a SnapshotDownloader on the storage tree the first
\* one left
DlConstruct ==
    /\ dlPhase \in {"returned", "raised"}
    /\ ~dl_rerun
    /\ dl_rerun' = TRUE
    /\ first_clean' = FullySuccessful(result)
    /\ dl_resume_mode' = TRUE
    /\ delay' = 1
    /\ stats' = [successful |-> 0, failed |-> 0, skipped |-> 0]
    /\ failed_downloads' = <<>>
    /\ dlPhase' = "idle"
    /\ passes' = <<>>
    /\ taskPc' = [i \in Records |-> "none"]
    /\ sleepLeft' = [i \in Records |-> 0]
    /\ sinceRequest' = 1
    /\ minGap' = 1
    /\ attempts' = [i \in Records |-> 0]
    /\ result' = <<>>
    /\ fetched' = [ok |-> 0, failed |-> 0]
    /\ reordered' = FALSE
    /\ UNCHANGED <<max_concurrent, htmlFiles, manifest>>
    /\ UNCHANGED <<crawlerVars, rlVars, fnVars, scVars, stVars>>

DlNext ==
    \/ DlStart
    \/ \E i \in Records : Acquire(i)
    \/ \E i \in Records : StartGet(i)
    \/ \E i \in Records : FinishGet(i)
    \/ Tick
    \/ GatherDone
    \/ DlConstruct

(***************************************************************************)
(* RateLimiter: operations                                                 *)
(***************************************************************************)

Min(a, b) == IF a < b THEN a ELSE b

\* lines 30-32: the burst counter as the call sees it after the window test
CountInWindow(since_start, count) ==
    IF since_start > BurstWindow THEN 0 ELSE count

\* a limiter that never finds its burst limit reached
BurstWait_Never(count, limit, d) ==
    0

\* lines 35-38: the sleep asked for because of the burst limit
BurstWait(count, limit, d) ==
    IF count >= limit THEN d * 2 ELSE 0

\* a limiter whose ordinary wait is skipped
NormalWait_None(time_since_last, d) ==
    0

\* lines 43-47: the sleep asked for because of the last request
NormalWait(time_since_last, d) ==
    IF time_since_last < d THEN d - time_since_last ELSE 0

\* a limiter whose ordinary wait is an "else" of the burst wait
TotalWait_Exclusive(burst_wait, normal_wait) ==
    IF burst_wait > 0 THEN burst_wait ELSE normal_wait

\* lines 35-47: the two sleeps are two "if" statements, one after the other
TotalWait(burst_wait, normal_wait) ==
    burst_wait + normal_wait

\* the largest value rl_elapsed has to tell apart
ElapsedCap == (MaxBurstLimit + 2) * MaxDelayTicks

\* wait_if_needed, by a single caller; each time.sleep lasts what was asked or longer
WaitIfNeeded ==
    /\ rlPhase = "ready"
    /\ \E over1 \in 0..MaxOversleep, over2 \in 0..MaxOversleep :
         LET expired == sinceBurstStart > BurstWindow
             count0  == CountInWindow(sinceBurstStart, burst_count)
             bwait   == BurstWait(count0, burst_limit, rl_delay)
             nwait   == NormalWait(sinceLast, rl_delay)
             asked   == TotalWait(bwait, nwait)
             slept   == asked + (IF bwait > 0 THEN over1 ELSE 0)
                              + (IF asked > bwait THEN over2 ELSE 0)
             restart == expired \/ bwait > 0
         IN  /\ burst_count' = (IF bwait > 0 THEN 0 ELSE count0) + 1
             /\ sinceBurstStart' =
                   Min(BurstWindow + 1, (IF restart THEN 0 ELSE sinceBurstStart) + slept)
             /\ sinceLast' = 0
             /\ rl_calls' = Min(burst_limit + 2, rl_calls + 1)
             /\ rl_elapsed' = IF rl_calls = 0 THEN Min(ElapsedCap, slept)
                              ELSE IF rl_calls <= burst_limit
                                   THEN Min(ElapsedCap, rl_elapsed + slept)
                                   ELSE rl_elapsed
             /\ windowRestarted' = (windowRestarted \/ (rl_calls > 0 /\ expired))
             /\ lastCall' = [ first |-> rl_calls = 0, burst |-> bwait > 0,
                              time_since_last |-> sinceLast, asked |-> asked,
                              gap |-> Min(rl_delay, sinceLast + slept) ]
    /\ UNCHANGED <<rl_delay, burst_limit, rlPhase>>
    /\ UNCHANGED <<crawlerVars, dlVars, fnVars, scVars, stVars>>

\* the caller is idle for one tick between two calls
RlIdle ==
    /\ rlPhase = "ready"
    /\ \/ sinceLast < rl_delay
       \/ sinceBurstStart <= BurstWindow
       \/ (rl_calls \in 1..burst_limit /\ rl_elapsed < ElapsedCap)
    /\ sinceLast' = Min(rl_delay, sinceLast + 1)
    /\ sinceBurstStart' = Min(BurstWindow + 1, sinceBurstStart + 1)
    /\ rl_elapsed' = IF rl_calls \in 1..burst_limit
                     THEN Min(ElapsedCap, rl_elapsed + 1) ELSE rl_elapsed
    /\ UNCHANGED <<rl_delay, burst_limit, burst_count, rlPhase, rl_calls,
                   windowRestarted, lastCall>>
    /\ UNCHANGED <<crawlerVars, dlVars, fnVars, scVars, stVars>>

\* reset(): the three fields go back to 0.0, far in the past of time.time()
RlReset ==
    /\ rlPhase = "ready"
    /\ burst_count' = 0
    /\ sinceLast' = rl_delay
    /\ sinceBurstStart' = BurstWindow + 1
    /\ rl_calls' = 0
    /\ rl_elapsed' = 0
    /\ windowRestarted' = FALSE
    /\ UNCHANGED <<rl_delay, burst_limit, rlPhase, lastCall>>
    /\ UNCHANGED <<crawlerVars, dlVars, fnVars, scVars, stVars>>

\* the values the fields have where a limiter is not looked at
RlFields ==
    /\ burst_count = 0
    /\ sinceLast = rl_delay
    /\ sinceBurstStart = BurstWindow + 1
    /\ rl_calls = 0
    /\ rl_elapsed = 0
    /\ windowRestarted = FALSE
    /\ lastCall = [ first |-> TRUE, burst |-> FALSE, time_since_last |-> rl_delay,
                    asked |-> 0, gap |-> rl_delay ]

\* RateLimiter.__init__: last_request_time and burst_start_time are 0.0, far in
\* the past of time.time()
RlInit ==
    /\ rl_delay \in 1..MaxDelayTicks
    /\ burst_limit \in 1..MaxBurstLimit
    /\ rlPhase = "ready"
    /\ RlFields

\* no limiter is looked at
RlUnused ==
    /\ rl_delay = 1
    /\ burst_limit = 1
    /\ rlPhase = "unused"
    /\ RlFields

RlNext ==
    \/ WaitIfNeeded
    \/ RlIdle
    \/ RlReset

\* the original URLs handed to the helper functions on their own: with and
\* without a scheme, with and without a path
OriginalUrls ==
    { scheme \o host \o path :
        scheme \in {<<>>, <<"http://">>, <<"https://">>},
        host \in {<<"site">>, <<"other">>},
        path \in {<<>>, <<"/about">>, <<"?p1">>} }

\* extract_timestamp_and_original(build_archive_url(t, u))
RoundTrip ==
    \E t \in Timestamps, u \in OriginalUrls :
        /\ fn_call = "none"
        /\ fn_call' = "round_trip"
        /\ fn_args' = [NotCalled EXCEPT !.round_trip = <<t, u>>]
        /\ fn_ret' = [NotCalled EXCEPT !.round_trip =
                         extract_timestamp_and_original(build_archive_url(t, u))]
        /\ UNCHANGED <<crawlerVars, dlVars, rlVars, scVars, stVars>>

MaxCaptures == 3        \* captures the CDX index answers with
MaxDayOffset == 1       \* a capture is at most this many days from target_date

\* one capture of cdx_api.snapshots(): days is (snapshot_dt - target_dt).days,
\* parsed = FALSE for a timestamp strptime rejects
Captures ==
    [days : (0 - MaxDayOffset)..MaxDayOffset, statuscode : {"200", "404"},
     parsed : {TRUE}]
    \cup { [days |-> 0, statuscode |-> "200", parsed |-> FALSE] }

CaptureLists ==
    UNION { [1..n -> Captures] : n \in 0..MaxCaptures }

Abs(n) == IF n < 0 THEN 0 - n ELSE n

\* float('inf') among day differences
Infinity == MaxDayOffset + 1

\* lines 165-183: the loop over the captures from position i on, with the
\* best_snapshot (<<>> for None) and min_diff found so far
RECURSIVE ScanSnapshots(_, _, _, _)
ScanSnapshots(snapshots, i, best_snapshot, min_diff) ==
    IF i > Len(snapshots) THEN best_snapshot
    ELSE IF ~snapshots[i].parsed
         THEN ScanSnapshots(snapshots, i + 1, best_snapshot, min_diff)
         ELSE LET diff == Abs(snapshots[i].days)
                  keep == diff < min_diff /\ snapshots[i].statuscode = "200"
                  best == IF keep THEN <<snapshots[i]>> ELSE best_snapshot
              IN  IF diff = 0 THEN best
                  ELSE ScanSnapshots(snapshots, i + 1, best,
                                     IF keep THEN diff ELSE min_diff)

\* lines 187-189: the first capture with status 200
RECURSIVE FirstOk(_, _)
FirstOk(snapshots, i) ==
    IF i > Len(snapshots) THEN <<>>
    ELSE IF snapshots[i].statuscode = "200" THEN <<snapshots[i]>>
         ELSE FirstOk(snapshots, i + 1)

\* _find_best_snapshot(site_url, target_date): the capture whose archive_url is
\* returned, <<>> for None; reachable = FALSE when the CDX request raises
find_best_snapshot(snapshots, reachable, with_target_date) ==
    IF ~reachable THEN <<>>
    ELSE IF with_target_date THEN ScanSnapshots(snapshots, 1, <<>>, Infinity)
         ELSE FirstOk(snapshots, 1)

\* one call of _find_best_snapshot
FindBestSnapshot ==
    \E snapshots \in CaptureLists, reachable \in BOOLEAN, with_target_date \in BOOLEAN :
        /\ fn_call = "none"
        /\ fn_call' = "find_best_snapshot"
        /\ fn_args' = [NotCalled EXCEPT !.find_best_snapshot =
                          <<snapshots, reachable, with_target_date>>]
        /\ fn_ret' = [NotCalled EXCEPT !.find_best_snapshot =
                         <<find_best_snapshot(snapshots, reachable, with_target_date)>>]
        /\ UNCHANGED <<crawlerVars, dlVars, rlVars, scVars, stVars>>

TruncateOver == 150     \* snapshot_downloader.py line 250: len(safe_name) > 150
KeepChars == 140        \* snapshot_downloader.py line 253: safe_name[:140]

\* the original_url values of the records of a batch; "/long" stands for a path
\* piece of 160 characters
DownloadUrls ==
    { scheme \o host \o path :
        scheme \in {<<>>, <<"http://">>, <<"https://">>},
        host \in {<<"site">>, <<"other">>},
        path \in {<<>>, <<"/p1">>, <<"?p1">>, <<"/long">>, <<"/long", "?p1">>} }

\* lines 246-247: the chain of replace(..., '_') on one piece of the URL
SafeTok(tok) ==
    CASE tok = "/p1" -> "_p1"
      [] tok = "?p1" -> "_p1"
      [] tok = "/long" -> "_long"
      [] OTHER -> tok

\* _url_to_safe_filename(url): the name and, for a long name, the URL whose md5
\* digest is appended (two URLs are taken to have different digests)
url_to_safe_filename(url) ==
    LET stripped  == StripScheme(url)
        safe_name == [i \in DOMAIN stripped |-> SafeTok(stripped[i])]
    IN  IF StrLen(safe_name) > TruncateOver
        THEN [name |-> TakeChars(safe_name, KeepChars), url_hash |-> <<stripped>>]
        ELSE [name |-> TakeChars(safe_name, StrLen(safe_name)), url_hash |-> <<>>]

\* _save_page_to_snapshot_dir, line 228: html_path of a record of the batch, all
\* records of one batch sharing snapshot_dir
html_path(original_url) ==
    [dir |-> "snapshot_dir", file |-> url_to_safe_filename(original_url), ext |-> ".html"]

\* the html_path of two records of one batch
HtmlPaths ==
    \E u1 \in DownloadUrls, u2 \in DownloadUrls :
        /\ fn_call = "none"
        /\ fn_call' = "html_path"
        /\ fn_args' = [NotCalled EXCEPT !.html_path = <<u1, u2>>]
        /\ fn_ret' = [NotCalled EXCEPT !.html_path = <<html_path(u1), html_path(u2)>>]
        /\ UNCHANGED <<crawlerVars, dlVars, rlVars, scVars, stVars>>

(***************************************************************************)
(* Political events (models/political_events.py)                           *)
(***************************************************************************)

\* a member of an Enum class and a plain string: Python's == holds between two
\* members of equal value and between two equal strings, never between a member
\* and a string (EventType and EventImportance derive from Enum alone)
Member(value) == [enum |-> TRUE, value |-> value]
Str(value) == [enum |-> FALSE, value |-> value]

\* four of the events of UKRAINE_POLITICAL_EVENTS, in the order of the list;
\* a date is written as the number yyyymmdd
Calendar ==
    << [name |-> "president_2019_1", date |-> 20190331,
        event_type |-> Member("election"), importance |-> Member("critical"),
        tags |-> {"elections", "president"}],
       [name |-> "local_2020", date |-> 20201025,
        event_type |-> Member("election"), importance |-> Member("high"),
        tags |-> {"elections", "covid"}],
       [name |-> "crimea_2014", date |-> 20140318,
        event_type |-> Member("war"), importance |-> Member("critical"),
        tags |-> {"crimea"}],
       [name |-> "covid_first_case", date |-> 20200303,
        event_type |-> Member("covid"), importance |-> Member("high"),
        tags |-> {"covid"}] >>

\* the longest list of events a manager is constructed with
MaxEvents == 3

\* the lists PoliticalEventManager(events) may be given
EventLists ==
    { l \in UNION { [1..n -> { Calendar[i] : i \in DOMAIN Calendar }] : n \in 0..MaxEvents } :
        \A i, j \in DOMAIN l : i # j => l[i] # l[j] }

\* PoliticalEventManager.__init__, line 274: events or UKRAINE_POLITICAL_EVENTS
ManagerEvents(events) == IF events = <<>> THEN Calendar ELSE events

\* the arguments EventFilter(...) may be constructed with; an absent list is {},
\* an absent date <<>>
EventFilters ==
    [event_types : SUBSET {Member("election"), Member("war")},
     importance_levels : SUBSET {Member("critical"), Member("high")},
     date_from : {<<>>, <<20190101>>},
     date_to : {<<>>, <<20191231>>},
     tags : SUBSET {"elections", "covid"}]

\* EventFilter.__init__ under Config.use_enum_values (lines 266-267): the model
\* is populated with the values of the enum members it is given
EventFilter(given) ==
    [given EXCEPT !.event_types = { Str(m.value) : m \in @ },
                  !.importance_levels = { Str(m.value) : m \in @ }]

RECURSIVE SortedByDate(_)
\* sorted(filtered_events, key=lambda x: x.date): stable
SortedByDate(events) ==
    IF events = <<>> THEN <<>>
    ELSE LET first == CHOOSE i \in DOMAIN events :
                        /\ \A j \in DOMAIN events : events[i].date <= events[j].date
                        /\ \A j \in 1..(i - 1) : events[j].date # events[i].date
         IN  <<events[first]>>
             \o SortedByDate([k \in 1..(Len(events) - 1) |->
                                 IF k < first THEN events[k] ELSE events[k + 1]])

\* get_events_by_filter(event_filter) of a manager holding events
get_events_by_filter(events, event_filter) ==
    LET by_type(e) == e.event_type \in event_filter.event_types
        by_importance(e) == e.importance \in event_filter.importance_levels
        by_from(e) == e.date >= event_filter.date_from[1]
        by_to(e) == e.date <= event_filter.date_to[1]
        by_tags(e) == \E tag \in event_filter.tags : tag \in e.tags
        f1 == IF event_filter.event_types # {} THEN SelectSeq(events, by_type)
              ELSE events
        f2 == IF event_filter.importance_levels # {} THEN SelectSeq(f1, by_importance)
              ELSE f1
        f3 == IF event_filter.date_from # <<>> THEN SelectSeq(f2, by_from) ELSE f2
        f4 == IF event_filter.date_to # <<>> THEN SelectSeq(f3, by_to) ELSE f3
        f5 == IF event_filter.tags # {} THEN SelectSeq(f4, by_tags) ELSE f4
    IN  SortedByDate(f5)

\* PoliticalEventManager(events).get_events_by_filter(EventFilter(...))
GetEventsByFilter ==
    \E events \in EventLists, given \in EventFilters :
        /\ fn_call = "none"
        /\ fn_call' = "get_events_by_filter"
        /\ fn_args' = [NotCalled EXCEPT
                          !.get_events_by_filter = <<[events |-> events, filter |-> given]>>]
        /\ fn_ret' = [NotCalled EXCEPT
                         !.get_events_by_filter =
                             get_events_by_filter(ManagerEvents(events), EventFilter(given))]
        /\ UNCHANGED <<crawlerVars, dlVars, rlVars, scVars, stVars>>

\* the URLs whose file names are asked for: those of a batch and some whose
\* sanitized form is longer than 200 characters or ends in ".html"
FilenameUrls ==
    DownloadUrls
    \cup { <<"https://">> \o host \o path :
             host \in {<<"site">>, <<"other">>},
             path \in {<<"/long", "/long">>, <<"/long", "/long", "?p1">>,
                       <<"/page.html">>, <<"/long", "/page.html">>} }

\* len() of a name built by _url_to_filename or _url_to_safe_filename
NameLen(f) ==
    StrLen(f.name.whole) + f.name.kept + (IF f.url_hash # <<>> THEN HashSuffix ELSE 0)

\* the file names the two layers give two URLs: _url_to_filename of the
\* StorageManager, and html_path of the SnapshotDownloader
Filenames ==
    \E u1 \in FilenameUrls, u2 \in FilenameUrls :
        /\ fn_call = "none"
        /\ fn_call' = "filenames"
        /\ fn_args' = [NotCalled EXCEPT !.filenames = <<u1, u2>>]
        /\ fn_ret' = [NotCalled EXCEPT
                         !.filenames = <<[storage |-> url_to_filename(u1),
                                          downloader |-> html_path(u1)],
                                         [storage |-> url_to_filename(u2),
                                          downloader |-> html_path(u2)]>>]
        /\ UNCHANGED <<crawlerVars, dlVars, rlVars, scVars, stVars>>

FnNext ==
    \/ RoundTrip
    \/ FindBestSnapshot
    \/ HtmlPaths
    \/ GetEventsByFilter
    \/ Filenames

\* no helper function has been applied
FnUnused ==
    /\ fn_call = "none"
    /\ fn_args = NotCalled
    /\ fn_ret = NotCalled

(***************************************************************************)
(* SnapshotCrawler: operations                                             *)
(***************************************************************************)

ScMaxPages == 3     \* largest max_pages of a SnapshotCrawler

\* a string that is no URL at all
NoUrl == [ts |-> None, orig |-> <<>>]

\* the start_archive_url a caller may pass: a well-formed archive URL, one
\* whose timestamp has 8 digits, and a string that is no URL
ScStartUrls ==
    { build_archive_url("T1", <<"site">>), build_archive_url("D8", <<"site">>), NoUrl }

\* the anchors a fetched page may carry
ScHrefs ==
    { [arch |-> FALSE, ts |-> None, toks |-> <<"/about">>],
      [arch |-> TRUE, ts |-> "T1", toks |-> <<"site", "/news">>],
      [arch |-> TRUE, ts |-> "D8", toks |-> <<"site", "/about">>],
      [arch |-> FALSE, ts |-> None, toks |-> <<"other", "/p1">>],
      [arch |-> FALSE, ts |-> None, toks |-> <<"//[">>] }

ScHrefLists == UNION { [1..n -> ScHrefs] : n \in 0..MaxLinks }

\* what one dispatched request can end with
ScOutcomes == {"ok", "http", "RequestException", "save_error"}

\* _extract_internal_links, lines 193-206: the archive link one anchor yields (a
\* set of at most one link)
ScArchiveLinkOf(href, base_archive_url, target_domain) ==
    IF ~href.arch /\ StartsWithSlash(href.toks)
    THEN IF extract_timestamp_and_original(base_archive_url)[1] # None
         THEN {convert_relative_to_archive(href.toks, base_archive_url)}
         ELSE {}
    ELSE IF \E i \in DOMAIN href.toks : href.toks[i] = target_domain
         THEN IF href.arch
              THEN {build_archive_url(href.ts, href.toks)}
              ELSE {build_archive_url(base_archive_url.ts, href.toks)}
    ELSE {}

RECURSIVE ScExtractInternalLinks(_, _, _, _)
\* _extract_internal_links: the links in document order
ScExtractInternalLinks(hrefs, base_archive_url, target_domain, visited) ==
    IF hrefs = <<>> THEN <<>>
    ELSE LET link == ScArchiveLinkOf(Head(hrefs), base_archive_url, target_domain)
             kept == { l \in link : is_same_domain(l, base_archive_url) /\ l \notin visited }
         IN  (IF kept = {} THEN <<>> ELSE <<CHOOSE l \in kept : TRUE>>)
             \o ScExtractInternalLinks(Tail(hrefs), base_archive_url, target_domain, visited)

\* url_helper.py line 68: urljoin raises ValueError("Invalid IPv6 URL") for a
\* relative URL that opens a host with "[" and never closes it
urljoin_raises(toks) ==
    toks # <<>> /\ toks[1] = "//["

\* _extract_internal_links, lines 188-197: the loop reaches an anchor whose href
\* starts with "/" and makes urljoin raise; nothing in the function catches it
ExtractRaises(hrefs) ==
    \E k \in DOMAIN hrefs : urljoin_raises(hrefs[k].toks)

\* save_page_content, lines 46-48: the archive URL cannot be taken apart
InvalidArchiveUrl(archive_url) ==
    extract_timestamp_and_original(archive_url)[1] = None

\* a test of the limits that leaves out the depth
ScShouldReturn_NoDepth(archive_url, depth) ==
    \/ Len(sc_found) >= sc_max_pages
    \/ archive_url \in sc_visited

\* snapshot_crawler.py lines 101-104: the limits that make _crawl_recursive
\* return at once
ScShouldReturn(archive_url, depth) ==
    \/ depth > sc_max_depth
    \/ Len(sc_found) >= sc_max_pages
    \/ archive_url \in sc_visited

\* _crawl_recursive(archive_url, target_domain, depth) up to its link loop, with
\* the outcome of its request and the anchors of its page: the new values
ScCrawlResult(archive_url, target_domain, depth, outcome, hrefs) ==
    LET cur == [visited |-> sc_visited, found |-> sc_found, failed |-> sc_failed,
                files |-> sc_files, frames |-> <<>>, gets |-> sc_requested,
                invalid |-> sc_invalid, waits |-> sc_dispatched, deep |-> sc_too_deep]
        seen == [cur EXCEPT !.visited = @ \cup {archive_url},
                            !.waits = Append(@, archive_url)]
        got == [seen EXCEPT !.gets = Append(@, archive_url)]
        failure == [got EXCEPT !.failed = Append(@, archive_url)]
    IN  IF ScShouldReturn(archive_url, depth)
        THEN IF ScShouldReturn(archive_url, 0) THEN cur
             ELSE [cur EXCEPT !.deep = @ \cup {archive_url}]
        ELSE IF ~InvalidArchiveUrl(archive_url) /\ PagePath(archive_url) \in sc_files
             THEN seen
        ELSE IF outcome \in {"http", "RequestException", "save_error"}
             THEN \* lines 121-124, 172-174 and 176-178 (save_page_content raising
                  \* while it writes)
                  failure
        ELSE IF InvalidArchiveUrl(archive_url)
             THEN \* save_page_content raises ValueError at line 48; lines 176-178
                  [failure EXCEPT !.invalid = @ \cup {archive_url}]
        ELSE IF ExtractRaises(hrefs)
             THEN \* the page is saved and appended to found_pages (lines 151-158),
                  \* then line 163 raises; lines 176-178
                  [failure EXCEPT !.files = @ \cup {PagePath(archive_url)},
                                  !.found = Append(@, [url |-> archive_url, depth |-> depth])]
        ELSE [got EXCEPT !.files = @ \cup {PagePath(archive_url)},
                         !.found = Append(@, [url |-> archive_url, depth |-> depth]),
                         !.frames = <<[links |-> ScExtractInternalLinks(
                                                    hrefs, archive_url, target_domain,
                                                    sc_visited \cup {archive_url}),
                                       depth |-> depth]>>]

\* the state after a call of _crawl_recursive made above the frames in rest
ScCalled(r, rest) ==
    /\ sc_visited' = r.visited
    /\ sc_found' = r.found
    /\ sc_failed' = r.failed
    /\ sc_files' = r.files
    /\ sc_requested' = r.gets
    /\ sc_invalid' = r.invalid
    /\ sc_dispatched' = r.waits
    /\ sc_too_deep' = r.deep
    /\ sc_stack' = rest \o r.frames

\* crawl_snapshot(start_archive_url), lines 59-75: the domain, the reset of the
\* state and the first call of _crawl_recursive
ScCrawlSnapshot ==
    /\ sc_phase = "idle"
    /\ \E start \in ScStartUrls :
         /\ sc_start' = start
         /\ IF get_domain(start) = ""
            THEN \* line 64: ValueError
                 /\ sc_phase' = "error"
                 /\ UNCHANGED <<sc_visited, sc_found, sc_failed, sc_files, sc_requested,
                                sc_invalid, sc_dispatched, sc_too_deep, sc_stack>>
            ELSE /\ sc_phase' = "crawl"
                 /\ \E outcome \in ScOutcomes :
                      \E hrefs \in (IF outcome = "ok" THEN ScHrefLists ELSE {<<>>}) :
                        ScCalled(ScCrawlResult(start, get_domain(start), 0, outcome, hrefs),
                                 <<>>)
    /\ UNCHANGED <<sc_max_pages, sc_max_depth>>
    /\ UNCHANGED <<crawlerVars, dlVars, rlVars, fnVars, stVars>>

\* _crawl_recursive, lines 166-168: one turn of the link loop of the top frame
ScLinkStep ==
    /\ sc_phase = "crawl"
    /\ sc_stack # <<>>
    /\ sc_stack[Len(sc_stack)].links # <<>>
    /\ Len(sc_found) < sc_max_pages
    /\ LET top == sc_stack[Len(sc_stack)]
           rest == [sc_stack EXCEPT ![Len(sc_stack)].links = Tail(@)]
       IN  \E outcome \in ScOutcomes :
             \E hrefs \in (IF outcome = "ok" THEN ScHrefLists ELSE {<<>>}) :
               ScCalled(ScCrawlResult(Head(top.links), get_domain(sc_start),
                                      top.depth + 1, outcome, hrefs), rest)
    /\ UNCHANGED <<sc_max_pages, sc_max_depth, sc_start, sc_phase>>
    /\ UNCHANGED <<crawlerVars, dlVars, rlVars, fnVars, stVars>>

\* _crawl_recursive, lines 166-170: the link loop of the top frame ends or breaks
ScReturn ==
    /\ sc_phase = "crawl"
    /\ sc_stack # <<>>
    /\ sc_stack[Len(sc_stack)].links = <<>> \/ Len(sc_found) >= sc_max_pages
    /\ sc_stack' = SubSeq(sc_stack, 1, Len(sc_stack) - 1)
    /\ UNCHANGED <<sc_max_pages, sc_max_depth, sc_start, sc_visited, sc_found,
                   sc_failed, sc_files, sc_phase, sc_requested, sc_invalid,
                   sc_dispatched, sc_too_deep>>
    /\ UNCHANGED <<crawlerVars, dlVars, rlVars, fnVars, stVars>>

\* crawl_snapshot, lines 78-95: the summary is built and saved;
\* save_snapshot_summary raises (line 100, None.replace) for a start URL that
\* cannot be taken apart
ScFinish ==
    /\ sc_phase = "crawl"
    /\ sc_stack = <<>>
    /\ sc_phase' = IF InvalidArchiveUrl(sc_start) THEN "error" ELSE "done"
    /\ UNCHANGED <<sc_max_pages, sc_max_depth, sc_start, sc_visited, sc_found,
                   sc_failed, sc_stack, sc_files, sc_requested, sc_invalid,
                   sc_dispatched, sc_too_deep>>
    /\ UNCHANGED <<crawlerVars, dlVars, rlVars, fnVars, stVars>>

\* the values the run's fields have before crawl_snapshot
ScFields ==
    /\ sc_start = NoUrl
    /\ sc_visited = {}
    /\ sc_found = <<>>
    /\ sc_failed = <<>>
    /\ sc_stack = <<>>
    /\ sc_requested = <<>>
    /\ sc_invalid = {}
    /\ sc_dispatched = <<>>
    /\ sc_too_deep = {}

\* SnapshotCrawler.__init__ on a storage tree that may hold pages of an earlier
\* crawl
ScInit ==
    /\ sc_max_pages \in 1..ScMaxPages
    /\ sc_max_depth \in 0..MaxDepthBound
    /\ sc_files \in SUBSET { PagePath(build_archive_url("T1", <<"site">>)),
                             PagePath(build_archive_url("T1", <<"site", "/about">>)) }
    /\ sc_phase = "idle"
    /\ ScFields

\* no SnapshotCrawler has been constructed
ScUnused ==
    /\ sc_max_pages = 1
    /\ sc_max_depth = 0
    /\ sc_files = {}
    /\ sc_phase = "unused"
    /\ ScFields

ScNext ==
    \/ ScCrawlSnapshot
    \/ ScLinkStep
    \/ ScReturn
    \/ ScFinish

(***************************************************************************)
(* StorageManager: operations                                              *)
(***************************************************************************)

\* the number of calls of save_page_content followed
MaxSaves == 3

\* the archive URLs a caller may save under
StRefs ==
    { build_archive_url("T1", <<"site">>), build_archive_url("T1", <<"site", "/p1">>),
      build_archive_url("T1", <<"site", "?p1">>), build_archive_url("T2", <<"site">>),
      build_archive_url("D8", <<"site">>) }

\* the HTML a caller may save, as the lines written
StContents == { <<"html_a">>, <<"html_b">> }

\* the metadata a caller may pass (its title; None is "")
StMetadata == { "", "title" }

\* open(file_path, 'a') instead: the content is added to what the file holds
WriteFile_Append(files, path, content) ==
    [p \in DOMAIN files \cup {path} |->
        IF p # path THEN files[p]
        ELSE IF p \in DOMAIN files THEN files[p] \o content ELSE content]

\* lines 67-68: open(file_path, 'w') and write(content)
WriteFile(files, path, content) ==
    [p \in DOMAIN files \cup {path} |-> IF p = path THEN content ELSE files[p]]

\* save_page_content(archive_url, content, metadata)
SavePageContent ==
    /\ st_now < MaxSaves
    /\ \E archive_url \in StRefs, content \in StContents, metadata \in StMetadata :
         LET raised == InvalidArchiveUrl(archive_url)
             file_path == PagePath(archive_url)
             files == IF raised THEN st_files ELSE WriteFile(st_files, file_path, content)
         IN  /\ st_files' = files
             /\ st_meta' = IF raised THEN st_meta
                           ELSE [p \in DOMAIN st_meta \cup {file_path} |->
                                   IF p = file_path
                                   THEN [title |-> metadata, saved_at |-> st_now]
                                   ELSE st_meta[p]]
             /\ st_dirs' = IF raised THEN st_dirs
                           ELSE st_dirs \cup {get_snapshot_path(archive_url)}
             /\ st_prev' = st_last
             /\ st_last' = <<[archive_url |-> archive_url, content |-> content,
                              metadata |-> metadata,
                              ret |-> IF raised THEN <<>> ELSE <<file_path>>,
                              files |-> files]>>
    /\ st_now' = st_now + 1
    /\ UNCHANGED <<crawlerVars, dlVars, rlVars, fnVars, scVars>>

\* StorageManager.__init__ on an empty base_path
StInit ==
    /\ st_files = << >>
    /\ st_meta = << >>
    /\ st_dirs = {}
    /\ st_now = 0
    /\ st_prev = <<>>
    /\ st_last = <<>>

\* the storage of the helper components is not followed
StUnused == StInit

StNext == SavePageContent

(***************************************************************************)
(* The components: each specification runs one of them and leaves the     *)
(* others unused                                                           *)
(***************************************************************************)

vars == <<crawlerVars, dlVars, rlVars, fnVars, scVars, stVars>>

\* no crawler has been constructed
CrawlerUnused ==
    /\ max_pages = 1
    /\ max_depth = 0
    /\ resume_mode = TRUE
    /\ start_url = build_archive_url("T1", <<"site">>)
    /\ visited_urls = {}
    /\ found_pages = <<>>
    /\ failed_urls = <<>>
    /\ skipped_urls = <<>>
    /\ phase = "unused"
    /\ seedIdx = 1
    /\ stack = <<>>
    /\ summary = <<>>
    /\ pageFiles = {}
    /\ snapDirs = {}
    /\ stateFile = <<>>
    /\ summaryFile = <<>>
    /\ resumed = FALSE
    /\ dispatched = <<>>
    /\ requested = <<>>
    /\ savedNow = {}
    /\ runs = <<>>

\* no downloader has been constructed
DlUnused ==
    /\ max_concurrent = 1
    /\ dl_resume_mode = TRUE
    /\ delay = 1
    /\ stats = [successful |-> 0, failed |-> 0, skipped |-> 0]
    /\ failed_downloads = <<>>
    /\ htmlFiles = {}
    /\ manifest = <<>>
    /\ dlPhase = "unused"
    /\ passes = <<>>
    /\ taskPc = [i \in Records |-> "none"]
    /\ sleepLeft = [i \in Records |-> 0]
    /\ sinceRequest = 1
    /\ minGap = 1
    /\ attempts = [i \in Records |-> 0]
    /\ result = <<>>
    /\ fetched = [ok |-> 0, failed |-> 0]
    /\ reordered = FALSE
    /\ dl_rerun = FALSE
    /\ first_clean = FALSE

\* the crawler
Init == CrawlerInit /\ DlUnused /\ RlUnused /\ FnUnused /\ ScUnused /\ StUnused

Next == CrawlerNext

Spec == Init /\ [][Next]_vars

\* the batch downloader
DlSpecInit == DlInit /\ CrawlerUnused /\ RlUnused /\ FnUnused /\ ScUnused /\ StUnused

DlSpec == DlSpecInit /\ [][DlNext]_vars

\* one RateLimiter and its single caller
RlSpecInit == RlInit /\ CrawlerUnused /\ DlUnused /\ FnUnused /\ ScUnused /\ StUnused

RlSpec == RlSpecInit /\ [][RlNext]_vars

\* the helper functions, each applied to arguments of its own
FnSpecInit == FnUnused /\ CrawlerUnused /\ DlUnused /\ RlUnused /\ ScUnused /\ StUnused

FnSpec == FnSpecInit /\ [][FnNext]_vars

\* the plain SnapshotCrawler
ScSpecInit == ScInit /\ CrawlerUnused /\ DlUnused /\ RlUnused /\ FnUnused /\ StUnused

ScSpec == ScSpecInit /\ [][ScNext]_vars

\* the StorageManager alone
StSpecInit == StInit /\ CrawlerUnused /\ DlUnused /\ RlUnused /\ FnUnused /\ ScUnused

StSpec == StSpecInit /\ [][StNext]_vars


(***************************************************************************)
(* Properties of the crawler                                               *)
(***************************************************************************)

Range(seq) == { seq[i] : i \in DOMAIN seq }

Count(x, seq) == Cardinality({ i \in DOMAIN seq : seq[i] = x })

Running == phase \in {"seeds", "final", "finish"}

\* C1: in every state of a crawl run with max_pages = N, fresh or resumed, found_pages
\* holds at most N records, and so does the returned summary.
C1_FoundWithinBudget ==
    /\ (Running \/ phase = "done") => Len(found_pages) <= max_pages
    /\ phase = "done" => summary[1].total_pages_found <= max_pages

\* C2: within one run no URL passes the rate limiter or is requested twice; a URL
\* that is already in visited_urls is not dispatched again and a URL recorded in
\* failed_urls is not requested again.
C2_NoRedispatch ==
    [][ /\ \A u \in Range(dispatched') :
              Count(u, dispatched') <=
                  IF u \in visited_urls THEN Count(u, dispatched) ELSE 1
        /\ \A u \in Range(requested') :
              Count(u, requested') <=
                  IF u \in visited_urls \/ \E i \in DOMAIN failed_urls : failed_urls[i].url = u
                  THEN Count(u, requested) ELSE 1 ]_vars

\* a seed that was first reached as a link of the start page and met again in the
\* seed loop has been requested once when the run ends
C2_Witness ==
    /\ phase = "done"
    /\ \E i \in DOMAIN found_pages :
          /\ found_pages[i].depth = 1
          /\ found_pages[i].url = all_urls(start_url)[2]
    /\ Count(all_urls(start_url)[2], requested) = 1

\* C3: in every state of a crawl run with max_depth = D every PageRecord of
\* found_pages has depth <= D, and the summary's max_depth_reached is <= D.
C3_DepthWithinLimit ==
    /\ (Running \/ phase = "done") =>
          \A i \in DOMAIN found_pages : found_pages[i].depth <= max_depth
    /\ phase = "done" => summary[1].max_depth_reached <= max_depth

\* C4: a completed crawl followed by a completed crawl with resume enabled and the
\* same budgets on the same storage: the second run requests and saves nothing and
\* ends with the found_pages of the first.
C4_ResumeIdempotent ==
    \A k \in 2..Len(runs) :
        ( /\ runs[k].resume_mode
          /\ runs[k].max_pages = runs[k - 1].max_pages
          /\ runs[k].max_depth = runs[k - 1].max_depth )
        => /\ runs[k].gets = 0
           /\ runs[k].saves = 0
           /\ runs[k].found_pages = runs[k - 1].found_pages

\* a URL that contains, case-insensitively, an exclusion substring
HasExcludedSubstring(archive_url) ==
    \E i \in DOMAIN archive_url.orig :
        Lower(archive_url.orig[i]) \in {"/wp-admin", "/login"}

\* C5: a URL containing an exclusion substring is never rate-limited, requested or
\* saved and never appears in found_pages; once dispatched it is in skipped_urls.
C5_ExcludedNeverFetched ==
    /\ \A u \in Range(dispatched) \cup Range(requested) \cup savedNow :
          ~HasExcludedSubstring(u)
    /\ \A i \in DOMAIN found_pages : ~HasExcludedSubstring(found_pages[i].url)
    /\ \A u \in visited_urls : HasExcludedSubstring(u) => u \in Range(skipped_urls)

\* an excluded seed (in upper case) was dispatched and skipped
C5_Witness ==
    /\ phase = "done"
    /\ \E u \in Range(skipped_urls) : HasExcludedSubstring(u) /\ ~IsExcluded_CaseSensitive(u)
    /\ requested = <<>>

\* the steps of a crawl run other than the user's interrupt
CrawlStep ==
    SeedStep \/ SeedsDone \/ FinalCall \/ LinkStep \/ Return \/ Finish

\* C6: no per-page outcome aborts the crawl: no exception leaves _crawl_recursive,
\* a running crawl always has a next step, and a finished one has returned and
\* persisted the summary of its lists.
C6_RunAlwaysCompletes ==
    /\ phase # "aborted"
    /\ Running => ENABLED CrawlStep
    /\ phase = "done" => summary = <<Summary>> /\ summaryFile = summary

\* a run in which every page failed, in every way a page can fail, has finished
C6_Witness ==
    /\ phase = "done"
    /\ found_pages = <<>>
    /\ { failed_urls[i].error : i \in DOMAIN failed_urls } =
          {"Not found in archive", "RequestException", "UnexpectedException"}
    /\ summary[1].total_pages_failed = 3


(***************************************************************************)
(* Properties of the batch downloader                                      *)
(***************************************************************************)

\* the tasks between acquiring and releasing a semaphore slot
InFlight == { i \in Records : taskPc[i] \in {"sleep", "get"} }

\* a pass entered through _retry_failed_downloads is running
InRetryPass == dlPhase = "gather" /\ Len(passes) >= 2

\* C7: within one top-level call of download_snapshot_batch there is one retry
\* generation: no record is requested more than twice, even when it always fails.
C7_OneRetryGeneration ==
    /\ Len(passes) <= 2
    /\ \A i \in Records : attempts[i] <= 2

\* C8: across the retry pass the failed counter never rises and the successful
\* counter rises exactly by the retried records that now succeed; when the retry
\* pass is entered, k of the n records of the main pass having failed, successful
\* is n - k.
C8_RetryCounters ==
    [][ /\ InRetryPass =>
              /\ stats'.failed <= stats.failed
              /\ stats'.successful - stats.successful =
                    IF dlPhase' = "gather" /\ passes' = passes THEN 0
                    ELSE Cardinality({ i \in Records : taskPc[i] = "true" })
        /\ (dlPhase = "gather" /\ Len(passes) = 1 /\ Len(passes') = 2) =>
              stats'.successful = Len(passes[1].snapshots) - Len(failed_downloads) ]_vars

\* C9: at most max_concurrent tasks are in flight at any time, in the main pass
\* and in every retry pass.
C9_AtMostWInFlight ==
    dlPhase # "unused" => Cardinality(InFlight) <= max_concurrent

\* in a retry pass every slot is taken and another task waits for one
C9_Witness ==
    /\ InRetryPass
    /\ Cardinality(InFlight) = max_concurrent
    /\ \E i \in Records : taskPc[i] = "wait"

\* C10: the tasks are serialized by the rate limiter: any two requests of the
\* downloader start at least the base delay (one tick) apart.
C10_RequestsSpaced ==
    minGap >= 1

\* C11: the aggregate counts depend only on how the requests ended, not on the
\* order in which the tasks finished: at every moment the counted and the not yet
\* counted results add up to the requests that ended in success and in failure,
\* and the returned counts are those numbers; skipped is every record that was
\* not saved by this call when resume is on, and 0 when it is off.
C11_CountsOrderIndependent ==
    /\ dlPhase # "unused" =>
          /\ stats.successful + Cardinality({ i \in Records : taskPc[i] = "true" })
                = fetched.ok
          /\ stats.failed + Cardinality({ i \in Records : taskPc[i] = "false" })
                = fetched.failed
    /\ dlPhase = "returned" =>
          /\ result[1].successful = fetched.ok
          /\ result[1].failed = fetched.failed
          /\ result[1].skipped = IF dl_resume_mode THEN NumRecords - fetched.ok ELSE 0

\* a call has returned in which a task finished before a task created before it,
\* with successes and failures to count
C11_Witness ==
    /\ dlPhase = "returned"
    /\ reordered
    /\ result[1].successful >= 1
    /\ result[1].failed >= 1

\* C12: every call of download_snapshot_batch that has returned has written the
\* manifest, as one document that replaces the one before, also when the resume
\* filter left nothing to download.
C12_ManifestAlwaysWritten ==
    dlPhase = "returned" => Len(manifest) = 1

\* C13: when download_snapshot_batch has returned or raised, rate_limiter.delay is
\* what it was before the call (one tick), whatever the retry passes did.
C13_DelayRestored ==
    dlPhase \in {"returned", "raised"} => delay = 1

\* the call raised out of a retry pass, that is with the delay doubled
C13_Witness ==
    /\ dlPhase = "raised"
    /\ \E i \in Records : attempts[i] >= 2


\* C19: with resume enabled the call drops, before any request, exactly the input
\* records whose html file exists and counts each of them as skipped; a record whose
\* file exists is never requested; and a run with --resume after a run that fetched
\* the whole batch successfully attempts no record and skips all of them.
C19_ResumeFilter ==
    [][ /\ (dlPhase = "idle" /\ dlPhase' # "idle" /\ dl_resume_mode) =>
              /\ { i \in Records : taskPc'[i] = "wait" } = Records \ htmlFiles
              /\ stats'.skipped = stats.skipped + Cardinality(htmlFiles)
              /\ attempts' = attempts
        /\ \A i \in Records :
              (dl_resume_mode /\ attempts'[i] > attempts[i]) => i \notin htmlFiles
        /\ (dl_rerun' /\ first_clean' /\ dlPhase' = "returned") =>
              /\ result'[1].total_attempted = 0
              /\ result'[1].skipped = NumRecords
              /\ \A i \in Records : attempts'[i] = 0
      ]_vars

\* the second run, after a first run that fetched every record, has returned
C19_Witness ==
    /\ dl_rerun
    /\ first_clean
    /\ dlPhase = "returned"
    /\ result[1].skipped = NumRecords

(***************************************************************************)
(* Properties of the rate limiter                                          *)
(***************************************************************************)

\* C14: between two consecutive returns of wait_if_needed on one limiter, with only
\* calls and idle periods of the single caller in between, at least the base delay
\* elapses.
C14_ReturnsSpaced ==
    (rlPhase = "ready" /\ ~lastCall.first) => lastCall.gap >= rl_delay

\* a call that came earlier than the base delay after the previous return, outside
\* a burst pause, and has returned
C14_Witness ==
    /\ rlPhase = "ready"
    /\ ~lastCall.first
    /\ ~lastCall.burst
    /\ lastCall.time_since_last < rl_delay
    /\ lastCall.asked > 0

\* C15: burst_limit + 1 calls that all begin within one burst window, the first of
\* them on a freshly constructed or reset limiter, take at least
\* 2 * delay + burst_limit * delay from the first call to the last return.
C15_BurstLowerBound ==
    (rlPhase = "ready" /\ rl_calls = burst_limit + 1 /\ ~windowRestarted)
        => rl_elapsed >= 2 * rl_delay + burst_limit * rl_delay

\* call burst_limit + 1 has returned within the window, after a call that was
\* issued as soon as the previous one returned
C15_Witness ==
    /\ rlPhase = "ready"
    /\ rl_calls = burst_limit + 1
    /\ ~windowRestarted
    /\ burst_limit >= 2
    /\ lastCall.burst
    /\ lastCall.time_since_last = 0
    /\ rl_elapsed < ElapsedCap

\* C16: one call asks for exactly 2 * delay of sleep when the burst counter has
\* reached burst_limit within the window, and otherwise for exactly
\* max(0, delay - time since the last call); the two cases are exclusive.
C16_ExclusiveSuspension ==
    (rlPhase = "ready" /\ rl_calls >= 1) =>
        lastCall.asked =
            IF lastCall.burst THEN 2 * rl_delay
            ELSE IF lastCall.time_since_last < rl_delay
                 THEN rl_delay - lastCall.time_since_last ELSE 0


(***************************************************************************)
(* Properties of the helper functions                                      *)
(***************************************************************************)

\* C17: extract_timestamp_and_original(build_archive_url(t, u)) = (t, u) for every
\* timestamp t of 14 digits and every original URL u, with or without a scheme.
C17_RoundTrip ==
    (fn_call = "round_trip" /\ IsFourteenDigits(fn_args.round_trip[1]))
        => fn_ret.round_trip = fn_args.round_trip


\* C18: with a target date and a reachable index, _find_best_snapshot returns a
\* capture of status 200 whose day distance to the target date is minimal among the
\* captures of status 200, and returns None only when the index has no such capture.
C18_NearestSuccessful ==
    (/\ fn_call = "find_best_snapshot"
     /\ fn_args.find_best_snapshot[2]
     /\ fn_args.find_best_snapshot[3]) =>
        LET snapshots == fn_args.find_best_snapshot[1]
            good == { i \in DOMAIN snapshots :
                        snapshots[i].parsed /\ snapshots[i].statuscode = "200" }
            best == fn_ret.find_best_snapshot[1]
        IN  IF good = {} THEN best = <<>>
            ELSE /\ best # <<>>
                 /\ best[1].statuscode = "200"
                 /\ \A i \in good : Abs(best[1].days) <= Abs(snapshots[i].days)


\* C20: two records of a batch whose original_url values differ are written to
\* different paths, so that no two download tasks write one file.
C20_DistinctPaths ==
    (fn_call = "html_path" /\ fn_args.html_path[1] # fn_args.html_path[2])
        => fn_ret.html_path[1] # fn_ret.html_path[2]


(***************************************************************************)
(* Properties of the plain SnapshotCrawler                                 *)
(***************************************************************************)

\* C21: a URL for which save_page_content raised its "Invalid archive URL" error
\* while the crawler saved the page is not entered into the crawler's failure
\* list on account of that error.
C21_InvalidUrlNotAFailure ==
    \A i \in DOMAIN sc_failed : sc_failed[i] \notin sc_invalid


(***************************************************************************)
(* Properties of the StorageManager                                        *)
(***************************************************************************)

\* the last two calls of save_page_content had the same arguments
SameSaveTwice ==
    /\ st_prev # <<>>
    /\ st_last # <<>>
    /\ st_last[1].archive_url = st_prev[1].archive_url
    /\ st_last[1].content = st_prev[1].content
    /\ st_last[1].metadata = st_prev[1].metadata

\* C22: saving the same content and metadata under the same archive URL twice
\* returns the same path both times and leaves the page files, their paths and
\* their contents, as they were after the first call.
C22_SaveIdempotent ==
    SameSaveTwice =>
        /\ st_last[1].ret = st_prev[1].ret
        /\ st_last[1].files = st_prev[1].files
        /\ st_files = st_prev[1].files

\* a page was saved twice in a row and is in the store
C22_Witness ==
    /\ SameSaveTwice
    /\ st_last[1].ret # <<>>
    /\ st_last[1].ret[1] \in DOMAIN st_files


(***************************************************************************)
(* Properties of the crawler, continued                                    *)
(***************************************************************************)

\* crawl_political_site is between the loading of its state and its return
InRun == phase \in {"seeds", "final", "finish"}

\* C23: during a run found_pages only grows at its end, and a record is
\* appended in the very call that dispatched and fetched its URL, so that the
\* records stand in the order in which their URLs were dispatched and fetched;
\* the records already there stay as they are.
C23_VisitOrder ==
    [][ InRun =>
          \/ found_pages' = found_pages
          \/ /\ Len(found_pages') = Len(found_pages) + 1
             /\ SubSeq(found_pages', 1, Len(found_pages)) = found_pages
             /\ Len(requested') = Len(requested) + 1
             /\ Len(dispatched') = Len(dispatched) + 1
             /\ found_pages'[Len(found_pages')].url = requested'[Len(requested')]
             /\ found_pages'[Len(found_pages')].url = dispatched'[Len(dispatched')] ]_vars

\* two pages found in one run, a failed request between them
C23_Witness ==
    /\ InRun
    /\ Len(found_pages) = 2
    /\ Len(requested) = 3
    /\ found_pages[1].url = requested[1]
    /\ found_pages[2].url = requested[3]


(***************************************************************************)
(* Properties of the political events                                      *)
(***************************************************************************)

\* the event satisfies every criterion the caller set in the filter
Satisfies(e, given) ==
    /\ given.event_types # {} => e.event_type \in given.event_types
    /\ given.importance_levels # {} => e.importance \in given.importance_levels
    /\ given.date_from # <<>> => e.date >= given.date_from[1]
    /\ given.date_to # <<>> => e.date <= given.date_to[1]
    /\ given.tags # {} => given.tags \cap e.tags # {}

\* C24: get_events_by_filter returns exactly the events of the manager that
\* satisfy every criterion set in the filter, in ascending order of date, so
\* that a filter some event satisfies has a non-empty result.
C24_ExactlyTheMatching ==
    fn_call = "get_events_by_filter" =>
        LET call == fn_args.get_events_by_filter[1]
            events == ManagerEvents(call.events)
            ret == fn_ret.get_events_by_filter
        IN  /\ { ret[i] : i \in DOMAIN ret }
                 = { events[i] : i \in { k \in DOMAIN events : Satisfies(events[k], call.filter) } }
            /\ \A i, j \in DOMAIN ret : i < j => ret[i].date <= ret[j].date


(***************************************************************************)
(* Properties of the file names                                            *)
(***************************************************************************)

\* len() of the file name the StorageManager writes
StorageFileLen(f) == NameLen(f) + (IF f.ext = ".html" THEN ExtLen ELSE 0)

\* len() of the file name the SnapshotDownloader writes
DownloaderFileLen(h) == NameLen(h.file) + ExtLen

\* C25: for a URL whose sanitized form is longer than the threshold, the file
\* name made of the truncated prefix, the hash suffix and the extension is at
\* most 200 characters long in the storage layer and at most 150 in the
\* downloader, and one URL is given one file name.
C25_FilenamesBounded ==
    fn_call = "filenames" =>
        /\ \A i \in 1..2 :
             LET f == fn_ret.filenames[i]
             IN  /\ f.storage.url_hash # <<>> => StorageFileLen(f.storage) <= LongOver
                 /\ f.downloader.file.url_hash # <<>>
                        => DownloaderFileLen(f.downloader) <= TruncateOver
        /\ fn_args.filenames[1] = fn_args.filenames[2]
              => fn_ret.filenames[1] = fn_ret.filenames[2]


(***************************************************************************)
(* Properties of the crawler: failures, resume, budget, order of the links *)
(***************************************************************************)

\* the depth of the call of _crawl_recursive a step makes
CallDepth == IF stack = <<>> THEN 0 ELSE stack[Len(stack)].depth + 1

\* the URLs of the records of a result list
UrlsOf(records) == { records[i].url : i \in DOMAIN records }

\* C26: a request that ends with 404, another status than 200, a transport
\* error or an unexpected exception (a failed save among them) appends exactly
\* one FailureRecord for its URL, with the error and the depth of the call,
\* appends no PageRecord, and opens no link loop for the page: none of its
\* links is visited from this call.
C26_FailureIsLeaf ==
    [][ (InRun /\ Len(requested') = Len(requested) + 1
               /\ found_pages' = found_pages)
          => LET archive_url == requested'[Len(requested')]
             IN  /\ Len(failed_urls') = Len(failed_urls) + 1
                 /\ SubSeq(failed_urls', 1, Len(failed_urls)) = failed_urls
                 /\ failed_urls'[Len(failed_urls')].url = archive_url
                 /\ failed_urls'[Len(failed_urls')].depth = CallDepth
                 /\ failed_urls'[Len(failed_urls')].error
                       \in {"Not found in archive", "HTTP", "RequestException",
                            "UnexpectedException"}
                 /\ Len(stack') <= Len(stack)
                 /\ visited_urls' = visited_urls \cup {archive_url}
                 /\ InRun' ]_vars

\* a page saved, then a link of it whose save failed: the failure is recorded
\* once, at depth 1, and the link is no page
C26_Witness ==
    /\ InRun
    /\ Len(found_pages) = 1
    /\ Len(requested) = 2
    /\ Len(failed_urls) = 1
    /\ failed_urls[1].url = requested[2]
    /\ failed_urls[1].error = "UnexpectedException"
    /\ failed_urls[1].depth = 1
    /\ requested[2] \notin UrlsOf(found_pages)


\* the step dispatches a URL for which the storage holds a page file
DispatchesStored ==
    /\ InRun
    /\ Len(dispatched') = Len(dispatched) + 1
    /\ PagePath(dispatched'[Len(dispatched')]) \in pageFiles

\* the call only marks its URL visited: no request, no record, no link loop
ShortCircuit ==
    /\ requested' = requested
    /\ found_pages' = found_pages
    /\ failed_urls' = failed_urls
    /\ pageFiles' = pageFiles
    /\ Len(stack') <= Len(stack)
    /\ visited_urls' = visited_urls \cup {dispatched'[Len(dispatched')]}

\* C27 as stated: whenever the storage holds content for a dispatched URL, the
\* crawler issues no request for it, appends neither a PageRecord nor a
\* FailureRecord and follows none of the page's links.
C27_StoredNeverFetched ==
    [][ DispatchesStored => ShortCircuit ]_vars

\* C27, amended: in resume mode, whenever the storage holds content for a
\* dispatched URL, the crawler issues no request for it, appends neither a
\* PageRecord nor a FailureRecord and follows none of the page's links; the URL
\* is only marked visited.
C27_ResumeShortCircuit ==
    [][ (DispatchesStored /\ resume_mode) => ShortCircuit ]_vars

\* a resuming run has dispatched a URL whose page the storage held, and has
\* requested nothing
C27_Witness ==
    /\ InRun
    /\ resume_mode
    /\ dispatched # <<>>
    /\ requested = <<>>
    /\ PagePath(dispatched[1]) \in pageFiles
    /\ dispatched[1] \in visited_urls
    /\ dispatched[1] \notin savedNow


\* C28: once found_pages holds max_pages records, the run makes no further
\* request and no further call of the rate limiter and adds nothing to
\* visited_urls, found_pages, failed_urls or skipped_urls; the seeds and the
\* links that remain are dropped.
C28_BudgetStopsTheRun ==
    [][ (InRun /\ Len(found_pages) >= max_pages)
          => UNCHANGED <<visited_urls, found_pages, failed_urls, skipped_urls,
                         dispatched, requested, savedNow, pageFiles>> ]_vars

\* the budget is reached inside a link loop that has a link left, which is then
\* dropped
C28_Witness ==
    /\ InRun
    /\ Len(found_pages) = max_pages
    /\ savedNow # {}
    /\ stack # <<>>
    /\ stack[Len(stack)].links # <<>>


\* the step is a turn of the link loop of the top frame: the loop takes the
\* first of the links the frame has left
TakesLink ==
    /\ InRun
    /\ stack # <<>>
    /\ stack[Len(stack)].links # <<>>
    /\ Len(stack') >= Len(stack)
    /\ stack'[Len(stack)] = [stack[Len(stack)] EXCEPT !.links = Tail(@)]

\* C29: the link loop of a fetched page recurses into every priority link the
\* extraction returned before it dispatches a regular link of that page: when
\* the loop takes a regular link, no priority link of the page is left.
C29_PriorityFirst ==
    [][ (TakesLink /\ ~IsPriority(Head(stack[Len(stack)].links)))
          => \A i \in DOMAIN stack[Len(stack)].links :
                ~IsPriority(stack[Len(stack)].links[i]) ]_vars

\* a priority link of a page was dispatched and failed, then a regular link of
\* the page was dispatched
C29_Witness ==
    /\ InRun
    /\ \E i, j \in DOMAIN dispatched :
         /\ i < j
         /\ IsPriority(dispatched[i])
         /\ \E k \in DOMAIN failed_urls :
               failed_urls[k].url = dispatched[i] /\ failed_urls[k].depth = 1
         /\ ~IsPriority(dispatched[j])
         /\ dispatched[j] # start_url


\* the step fetches a page and opens its link loop with the links the
\* extraction returned
OpensLinkLoop ==
    /\ InRun
    /\ Len(stack') = Len(stack) + 1
    /\ Len(requested') = Len(requested) + 1

InMainPass == dlPhase = "gather" /\ Len(passes) = 1

\* C31: in the main pass a download that ends with a non-200 status, a timeout or
\* an exception is appended to the retry queue and is not added to the failure
\* count at that point: the failure counter does not move while the main pass
\* runs, nor when the main pass hands its queue to the retry pass; the record
\* counts as failed only if its retry fails as well.
C31_FailureOnlyQueued ==
    [][ InMainPass =>
          /\ \A i \in Records :
                (taskPc[i] = "get" /\ taskPc'[i] = "false") =>
                    /\ failed_downloads' = Append(failed_downloads, i)
                    /\ stats'.failed = stats.failed
          /\ (dlPhase' = "gather" /\ Len(passes') = 2) => stats'.failed = stats.failed
      ]_vars


\* C32: when _find_best_snapshot returns None, crawl_political_site fails with its
\* ValueError before any page is dispatched: the failing call issues no request,
\* leaves visited, found, failed and skipped as they were, writes no summary, no
\* state file and no page, and the run is over.
C32_NoSnapshotNoCrawl ==
    [][ /\ (phase = "idle" /\ phase' = "error") =>
              /\ dispatched' = <<>>
              /\ requested' = <<>>
              /\ savedNow' = {}
              /\ UNCHANGED <<visited_urls, found_pages, failed_urls, skipped_urls>>
              /\ UNCHANGED <<summary, summaryFile, stateFile, pageFiles, snapDirs>>
        /\ (phase = "error" /\ phase' # "error") => (phase' = "idle" /\ resumed')
      ]_vars

\* the resuming process found a state file of the first run on disk and its
\* finder returned None: nothing was loaded, nothing requested
C32_Witness ==
    /\ phase = "error"
    /\ resumed
    /\ stateFile # <<>>
    /\ visited_urls = {}
    /\ requested = <<>>


\* the CrawlState of the running crawler: what _save_crawler_state puts in the file
CrawlState ==
    [visited_urls |-> visited_urls, found_pages |-> found_pages,
     failed_urls |-> failed_urls]

\* C33: at the end of every crawl run the state file of the snapshot is overwritten
\* with the run's final visited set, found list and failed list, and a later run
\* that resumes on the snapshot starts from exactly the persisted visited set,
\* found list and failed list.
C33_StateRoundTrip ==
    [][ /\ (phase = "finish" /\ phase' = "done") => stateFile' = <<CrawlState>>
        /\ (phase = "idle" /\ phase' = "seeds" /\ resume_mode /\ stateFile # <<>>) =>
              <<CrawlState'>> = stateFile
      ]_vars


(***************************************************************************)
(* Properties of the calls that return at once                             *)
(***************************************************************************)

\* the link loop of the top frame of the SnapshotCrawler makes its next call
ScCallsNext ==
    /\ sc_phase = "crawl"
    /\ sc_stack # <<>>
    /\ sc_stack[Len(sc_stack)].links # <<>>
    /\ Len(sc_found) < sc_max_pages

\* C34: a call of _crawl_recursive that is rejected because its URL is already
\* visited, its depth exceeds max_depth or the page budget is reached changes none
\* of visited, found and failed, does not reach the rate limiter, issues no request
\* and writes no file: the caller's loop just moves on.  A URL rejected for its
\* depth alone is therefore not marked visited (and is fetched when a shallower
\* page links to it).
C34_SilentSkip ==
    [][ ScCallsNext =>
          LET top == sc_stack[Len(sc_stack)]
          IN  (\/ Head(top.links) \in sc_visited
               \/ top.depth + 1 > sc_max_depth
               \/ Len(sc_found) >= sc_max_pages) =>
                  /\ UNCHANGED <<sc_visited, sc_found, sc_failed>>
                  /\ UNCHANGED <<sc_dispatched, sc_requested, sc_files, sc_invalid>>
                  /\ sc_stack' = [sc_stack EXCEPT ![Len(sc_stack)].links = Tail(@)]
      ]_vars

\* a URL that a call rejected for its depth alone has later been requested, as
\* the link of a shallower page
C34_Witness ==
    \E k \in DOMAIN sc_requested : sc_requested[k] \in sc_too_deep


(***************************************************************************)
(* Termination of the crawl                                                *)
(***************************************************************************)

\* one call of crawl_political_site on a constructed crawler, left to run
LiveNext == BeginCrawl \/ CrawlStep

\* the crawl is one sequential call: while it runs, the interpreter executes its
\* next statement, whatever the requests return
LiveSpec == Init /\ [][LiveNext]_vars /\ WF_vars(CrawlStep)

\* the archive links the pages of the site can carry on the page at archive_url
LinksFrom(archive_url) ==
    InternalLinks_KeepVisited(Hrefs, archive_url, get_domain(start_url), {})

RECURSIVE ReachableWithin(_)
\* the URLs reachable from all_urls over at most depth links, in the largest link
\* graph the site can have
ReachableWithin(depth) ==
    IF depth = 0 THEN Range(all_urls(start_url))
    ELSE LET near == ReachableWithin(depth - 1)
         IN  near \cup UNION { LinksFrom(u) : u \in near }

\* C35: whatever the link graph (cycles and self-links included) and whatever the
\* requests return, a running crawl comes to its end, and the requests it issues
\* are requests of pairwise distinct URLs reachable from the seeds within
\* max_depth links, so that their number is bounded by the number of those URLs.
C35_CrawlTerminates ==
    /\ Running ~> ~Running
    /\ []((Running \/ phase = "done") =>
              /\ Range(requested) \subseteq ReachableWithin(max_depth)
              /\ Len(requested) = Cardinality(Range(requested))
              /\ Len(requested) <= Cardinality(ReachableWithin(max_depth)))

\* a run that followed a link to a page which can link to itself has ended
C35_Witness ==
    /\ phase = "done"
    /\ max_depth >= 1
    /\ \E i \in DOMAIN found_pages :
          /\ found_pages[i].depth = 1
          /\ found_pages[i].url \in LinksFrom(found_pages[i].url)
          /\ found_pages[i].url \in Range(requested)


(***************************************************************************)
(* Termination of the batch download                                       *)
(***************************************************************************)

\* the steps of one download_snapshot_batch call, at any nesting depth
DlStep ==
    \/ \E i \in Records : Acquire(i)
    \/ \E i \in Records : StartGet(i)
    \/ \E i \in Records : FinishGet(i)
    \/ Tick
    \/ GatherDone
    \/ RetryBeyond

DlLiveNext == DlStart \/ DlStep \/ DlConstruct

\* the event loop runs every task that is ready, every sleep ends and every
\* request returns or times out
DlLiveSpec == DlSpecInit /\ [][DlLiveNext]_vars /\ WF_vars(DlStep)

\* C36: download_snapshot_batch comes to its end for every input list and every
\* assignment of fetch outcomes, records that fail on every attempt included: a
\* call that waits in gather eventually returns (or raises).
C36_BatchTerminates ==
    (dlPhase = "gather") ~> (dlPhase \in {"returned", "raised"})


(***************************************************************************)
(* Invariants of the bookkeeping                                           *)
(***************************************************************************)

\* C37: in every state of a fresh crawl run the URLs of found_pages and the URLs of
\* failed_urls are disjoint (and disjoint from the skipped ones, which the plain
\* crawler does not have), no list holds a URL twice, and all of them are in
\* visited_urls.
C37_Bookkeeping ==
    LET found == { sc_found[i].url : i \in DOMAIN sc_found }
    IN  /\ found \cap Range(sc_failed) = {}
        /\ Cardinality(found) = Len(sc_found)
        /\ Cardinality(Range(sc_failed)) = Len(sc_failed)
        /\ found \cup Range(sc_failed) \subseteq sc_visited


\* C38: in a fresh crawl run every PageRecord of found_pages with depth d > 0 comes
\* after a PageRecord with depth d - 1, so that the depths present in found_pages
\* are exactly 0..max_depth_reached, and the records of depth 0 are seeds only.
C38_DepthChain ==
    ~resumed =>
        /\ \A i \in DOMAIN found_pages :
              found_pages[i].depth > 0 =>
                  \E j \in 1..(i - 1) : found_pages[j].depth = found_pages[i].depth - 1
        /\ found_pages # <<>> =>
              { found_pages[i].depth : i \in DOMAIN found_pages } =
                  0..MaxDepthReached(found_pages)
        /\ \A i \in DOMAIN found_pages :
              found_pages[i].depth = 0 => found_pages[i].url \in Range(all_urls(start_url))

\* a fresh run has returned with a page of depth 1 after the seed that links to it
C38_Witness ==
    /\ ~resumed
    /\ phase = "done"
    /\ Len(found_pages) = 2
    /\ found_pages[1].depth = 0
    /\ found_pages[2].depth = 1
    /\ summary[1].max_depth_reached = 1


\* C39: for a limiter with burst limit B >= 1 the burst counter is in 0..B after
\* any sequence of wait_if_needed() and reset() calls; it is at least 1 right after
\* every return of wait_if_needed(), and right after reset() it is 0, with the time
\* of the last request and the start of the burst window back at their initial
\* value (far in the past).
C39_BurstCounterRange ==
    /\ [](burst_count \in 0..burst_limit)
    /\ [][ /\ WaitIfNeeded => burst_count' \in 1..burst_limit
           /\ RlReset => /\ burst_count' = 0
                         /\ sinceLast' = rl_delay
                         /\ sinceBurstStart' = BurstWindow + 1
         ]_vars

\* a call found the burst limit of 2 reached, slept and started the count again
C39_Witness ==
    /\ rlPhase = "ready"
    /\ burst_limit >= 2
    /\ lastCall.burst
    /\ burst_count = 1


\* C40: in the result that download_snapshot_batch returns on a fresh downloader,
\* successful + failed = total_attempted: every record that survived the resume
\* filter is counted once, as successful or as failed, with or without a retry pass.
C40_ResultAccounting ==
    dlPhase = "returned" =>
        result[1].successful + result[1].failed = result[1].total_attempted

====
